---- MODULE Spec2Model ----
(***************************************************************************)
(* Model of the RTMS ingestion core: the per-meeting transcript buffer     *)
(* (server/helpers/transcript-buffer.js with its two callers) and the      *)
(* stream sessions of the RTMS manager (registry, signaling socket, media  *)
(* sub-sockets, stream history).                                           *)
(*                                                                         *)
(* JavaScript strings are TLA+ strings, built with \o.  An utterance text  *)
(* enters the model as a sequence of tokens (words and whitespace runs)    *)
(* so that text.split(/\s+/) can be computed; Str flattens it to the       *)
(* string the program stores.                                              *)
(***************************************************************************)
EXTENDS Integers, Sequences, FiniteSets, TLC

VARIABLES
    \* ---- transcript buffer subsystem ----
    buffers,        \* transcript-buffer.js `buffers`: meetingId -> TranscriptBuffer | NoBuffer
    created,        \* history: number of TranscriptBuffer objects constructed per meeting
    appended,       \* history: every utterance handed to append(), in order
    chunkLog,       \* history: every emitted 'chunk' event, in order
    summaryLog,     \* history: every emitted 'summarize' event, in order
    routes,         \* the wiredMeetings set of each route, and the open /rtms connections
    destroyed,      \* history: per meeting, the TranscriptBuffer objects destroyed so far
    clock,          \* Date.now() in ms and the due times of the buffer's timers, when time is modelled
    \* ---- RTMS manager and stream sessions ----
    config,         \* RTMSManager.instance.config (fixed at init())
    manager,        \* RTMSManager.instance: _state, connectionManager, streamHistory
    sessions,       \* every RTMSMessageHandler object constructed so far, by identity
    sockets,        \* every WebSocket object constructed so far, by identity
    duplicates,     \* history: number of rtms_started events ignored as duplicates, per streamId
    \* ---- gap fillers ----
    filler,         \* a MediaAudioFiller or MediaVideoFiller object
    emitted,        \* history: every 'data' event of the filler, in order
    \* ---- initialisation ----
    inits,          \* history: the RTMSManager.init calls and what they did
    \* ---- webhook route ----
    posts,          \* history: the last POST /webhook request and its response
    \* ---- keep-alive frames of the signaling and media sockets ----
    keepAlive,      \* keepAliveResponse of the media handler, and the frames of each socket
    \* ---- exploration ----
    limits,         \* the bounds that differ between the specifications; never changes
    ensured,        \* ensureRTMSInitialized of routes/webhook.js: its flag and its calls
    eventWs         \* the WebsocketManager of the event WebSocket

bufVars == <<buffers, created, appended, chunkLog, summaryLog, routes, destroyed, clock>>

sesVars == <<config, manager, sessions, sockets, duplicates>>

filVars == <<filler, emitted>>

\* the subsystems that are specified on their own
restVars == <<keepAlive, limits, ensured, eventWs>>

vars == <<buffers, created, appended, chunkLog, summaryLog, routes, destroyed, clock,
          config, manager, sessions, sockets, duplicates, filler, emitted, inits, posts, restVars>>

-----------------------------------------------------------------------------
(* Bounds of the model *)

\* total number of append() calls explored
MaxAppends == 3
\* number of TranscriptBuffer objects constructed for one meeting
MaxBuffers == 2
\* number of /rtms WebSocket connections open at once, per meeting
MaxWsConnections == 1
\* number of words of the long utterance (two of them reach the word threshold)
LongWords == 250

\* the timed transcript flow: the utterances are fed within ScenarioWindow ms,
\* time advances by at most TimeStep ms at once, up to MaxNow ms
ScenarioWindow == 4000
TimeStep == 1000
MaxNow == 125000

(* Program constants *)
SUMMARY_INTERVAL_MS == 30000
CHUNK_INTERVAL_MS == 60000
CHUNK_WORD_THRESHOLD == 500
SPEAKER_IDLE_MS == 10000

Meetings == {"UUID-A"}
Speakers == {"U1", "U2"}

\* userName carried by the transcript events of a speaker
UserName(sp) == sp

-----------------------------------------------------------------------------
(* Strings *)

IsWs(t) == t \in {" ", "\t", "\n"}

LongText == [i \in 1..(2 * LongWords - 1) |-> IF i % 2 = 1 THEN "w" ELSE " "]


\* the string a token sequence spells (concatenation, by halves)
RECURSIVE Str(_)
Str(toks) ==
    IF toks = <<>> THEN ""
    ELSE IF Len(toks) = 1 THEN toks[1]
    ELSE LET h == Len(toks) \div 2
         IN  Str(SubSeq(toks, 1, h)) \o Str(SubSeq(toks, h + 1, Len(toks)))

\* text.split(/\s+/).length : one more piece than there are whitespace runs
SplitWsLength(toks) ==
    1 + Cardinality({i \in 1..Len(toks) :
                        IsWs(toks[i]) /\ (i = 1 \/ ~IsWs(toks[i - 1]))})

\* a transcript text as the program sees it: the string, and what
\* text.split(/\s+/).length gives for it
TextOf(toks) == [str |-> Str(toks), splitLength |-> SplitWsLength(toks)]

\* the (speaker, text) pairs the appends are drawn from ("" included)
Inputs == { <<"U1", TextOf(<<>>)>>, <<"U1", TextOf(<<"hello">>)>>,
            <<"U2", TextOf(LongText)>> }

\* Array.prototype.join over a sequence of strings
RECURSIVE Join(_, _)
Join(strs, sep) ==
    IF strs = <<>> THEN ""
    ELSE IF Len(strs) = 1 THEN strs[1]
    ELSE strs[1] \o sep \o Join(Tail(strs), sep)

\* [...new Set(seq)] : first occurrences, in order
RECURSIVE Unique(_)
Unique(seq) ==
    IF seq = <<>> THEN <<>>
    ELSE LET rest == Unique(SubSeq(seq, 1, Len(seq) - 1))
             last == seq[Len(seq)]
         IN  IF \E i \in 1..Len(rest) : rest[i] = last THEN rest
             ELSE Append(rest, last)

SelectIdx(seq, from, Test(_)) ==
    LET F[i \in 0..Len(seq)] ==
            IF i = 0 THEN <<>>
            ELSE IF i >= from /\ Test(seq[i]) THEN Append(F[i - 1], seq[i])
            ELSE F[i - 1]
    IN  F[Len(seq)]

MapSeq(seq, Op(_)) == [i \in 1..Len(seq) |-> Op(seq[i])]

-----------------------------------------------------------------------------
(* TranscriptBuffer *)

NoBuffer == [exists |-> FALSE]

\* new TranscriptBuffer(meetingId)
NewBuffer(m) ==
    [ exists                |-> TRUE,
      meetingId             |-> m,
      utterances            |-> <<>>,
      speakerLastSummarized |-> [sp \in Speakers |-> -1],   \* absent = -1 (`?? -1`)
      speakerIdleTimers     |-> {},
      wordCount             |-> 0,
      chunkSeq              |-> 0,
      summaryTimer          |-> TRUE,
      chunkTimer            |-> TRUE,
      listeners             |-> 0 ]     \* pairs of 'chunk' / 'summarize' listeners

\* a buffer together with the events it has emitted during one call
Out(b, cs, ss) == [buf |-> b, chunks |-> cs, sums |-> ss]

UtteranceText(u) == u.text
UtteranceLine(u) == u.speakerName \o ": " \o u.text
UtteranceSpeakerId(u) == u.speakerId
UtteranceSpeakerName(u) == u.speakerName

\* the segmentCount of a summarize event
TotalCount(b, speakerId) ==
    Len(SelectIdx(b.utterances, 1, LAMBDA u : u.speakerId = speakerId))

\* a speaker summary that does not record how far it has summarised
TriggerSpeakerSummaryNoMark(o, speakerId) ==
    LET b            == o.buf
        lastIdx      == b.speakerLastSummarized[speakerId]
        unsummarized == SelectIdx(b.utterances, lastIdx + 2,
                                  LAMBDA u : u.speakerId = speakerId)
    IN  IF Len(unsummarized) = 0 THEN o
        ELSE LET ev == [ meetingId    |-> b.meetingId,
                         speakerId    |-> speakerId,
                         speakerName  |-> unsummarized[Len(unsummarized)].speakerName,
                         recentText   |-> Join(MapSeq(unsummarized, UtteranceText), " "),
                         segmentCount |-> TotalCount(b, speakerId),
                         deliveredTo  |-> b.listeners ]
                 b2 == [b EXCEPT !.speakerIdleTimers = @ \ {speakerId}]
             IN  Out(b2, o.chunks, Append(o.sums, ev))

\* _triggerSpeakerSummary(speakerId)
TriggerSpeakerSummary(o, speakerId) ==
    LET b            == o.buf
        lastIdx      == b.speakerLastSummarized[speakerId]
        unsummarized == SelectIdx(b.utterances, lastIdx + 2,
                                  LAMBDA u : u.speakerId = speakerId)
    IN  IF Len(unsummarized) = 0 THEN o
        ELSE LET ev == [ meetingId    |-> b.meetingId,
                         speakerId    |-> speakerId,
                         speakerName  |-> unsummarized[Len(unsummarized)].speakerName,
                         recentText   |-> Join(MapSeq(unsummarized, UtteranceText), " "),
                         segmentCount |-> TotalCount(b, speakerId),
                         deliveredTo  |-> b.listeners ]   \* history
                 b2 == [b EXCEPT
                          !.speakerLastSummarized[speakerId] = Len(b.utterances) - 1,
                          !.speakerIdleTimers = @ \ {speakerId}]
             IN  Out(b2, o.chunks, Append(o.sums, ev))

\* _triggerSummaries(): the speakers with new utterances, in order of first one
SpeakersWithNew(b) ==
    LET F[i \in 0..Len(b.utterances)] ==
            IF i = 0 THEN <<>>
            ELSE LET sp == b.utterances[i].speakerId
                 IN  IF (i - 1) > b.speakerLastSummarized[sp]
                        /\ ~ \E j \in 1..Len(F[i - 1]) : F[i - 1][j] = sp
                     THEN Append(F[i - 1], sp)
                     ELSE F[i - 1]
    IN  F[Len(b.utterances)]

TriggerSummaries(o) ==
    LET sps == SpeakersWithNew(o.buf)
        F[i \in 0..Len(sps)] ==
            IF i = 0 THEN o ELSE TriggerSpeakerSummary(F[i - 1], sps[i])
    IN  F[Len(sps)]

\* the chunk id `${meetingId}-chunk-${chunkSeq}`
ChunkId(m, seq) == m \o "-chunk-" \o ToString(seq)

\* a flush that forgets to empty the utterance list
ClearBufferKeepsUtterances(b) ==
    [b EXCEPT !.wordCount = 0,
              !.speakerLastSummarized = [sp \in Speakers |-> -1]]

\* what _triggerChunkFlush leaves in the buffer after the emission
ClearBuffer(b) ==
    [b EXCEPT !.utterances = <<>>,
              !.wordCount = 0,
              !.speakerLastSummarized = [sp \in Speakers |-> -1]]

\* _triggerChunkFlush()
TriggerChunkFlush(o) ==
    LET b == o.buf
    IN  IF Len(b.utterances) = 0 THEN o
        ELSE LET seq == b.chunkSeq + 1
                 ev  == [ meeting_id    |-> b.meetingId,
                          text          |-> Join(MapSeq(b.utterances, UtteranceLine), "\n"),
                          speaker_ids   |-> Unique(MapSeq(b.utterances, UtteranceSpeakerId)),
                          speaker_names |-> Unique(MapSeq(b.utterances, UtteranceSpeakerName)),
                          chunk_id      |-> ChunkId(b.meetingId, seq),
                          deliveredTo   |-> b.listeners ]   \* history
             IN  Out(ClearBuffer([b EXCEPT !.chunkSeq = seq]),
                     Append(o.chunks, ev), o.sums)

\* append({speakerId, speakerName, text, timestamp})
BufferAppend(o, speakerId, speakerName, text) ==
    LET b  == o.buf
        b2 == [b EXCEPT
                 !.utterances = Append(@, [speakerId   |-> speakerId,
                                           speakerName |-> speakerName,
                                           text        |-> text.str]),
                 !.wordCount = @ + text.splitLength,
                 !.speakerIdleTimers = @ \cup {speakerId}]
    IN  IF b2.wordCount >= CHUNK_WORD_THRESHOLD
        THEN TriggerChunkFlush(Out(b2, o.chunks, o.sums))
        ELSE Out(b2, o.chunks, o.sums)

\* this.removeAllListeners()
RemoveAllListeners(o) == [o EXCEPT !.buf.listeners = 0]

\* a destroy that flushes the chunk before it summarises
BufferDestroyFlushFirst(o) ==
    LET b0 == [o.buf EXCEPT !.summaryTimer = FALSE,
                            !.chunkTimer = FALSE,
                            !.speakerIdleTimers = {}]
    IN  RemoveAllListeners(TriggerSummaries(TriggerChunkFlush(Out(b0, o.chunks, o.sums))))

\* destroy()
BufferDestroy(o) ==
    LET b0 == [o.buf EXCEPT !.summaryTimer = FALSE,
                            !.chunkTimer = FALSE,
                            !.speakerIdleTimers = {}]
    IN  RemoveAllListeners(TriggerChunkFlush(TriggerSummaries(Out(b0, o.chunks, o.sums))))

\* getOrCreateBuffer(meetingId), as the new value of the registry
GetOrCreateBuffer(bufs, m) ==
    IF bufs[m].exists THEN bufs ELSE [bufs EXCEPT ![m] = NewBuffer(m)]

\* wireBufferEvents(meetingId) of a route whose wiredMeetings set is wired
WireBufferEvents(bufs, wired, m) ==
    IF m \in wired THEN [buffers |-> bufs, wired |-> wired]
    ELSE [buffers |-> [GetOrCreateBuffer(bufs, m) EXCEPT ![m].listeners = @ + 1],
          wired   |-> wired \cup {m}]

\* time is not modelled: every pending timer may fire at any moment
NoClock == [now |-> 0, said |-> 0, lastAppend |-> -1, summaryDue |-> -1, chunkDue |-> -1,
            idleDue |-> [sp \in Speakers |-> -1], summaryAt |-> <<>>, chunkAt |-> <<>>]

\* no meeting is wired, no /rtms connection is open, no buffer was destroyed
RoutesIdle ==
    /\ routes = [webhook |-> {}, rtms |-> {}, wsConnections |-> [m \in Meetings |-> 0],
                 meetingIdToUuid |-> {}]
    /\ destroyed = [m \in Meetings |-> <<>>]
    /\ clock = NoClock

-----------------------------------------------------------------------------
(* RTMS manager and stream sessions: bounds and inputs *)

\* number of RTMSMessageHandler objects constructed
MaxSessions == 2
\* number of WebSocket objects constructed
MaxSockets == 3
\* number of rtms_started events ignored as duplicates, per streamId
MaxDuplicates == 1

\* number of entries of streamHistoryAccessOrder left by an archiveStream call
MaxAccessOrder == 3

\* streamId of the rtms_started and rtms_stopped events
StreamIds == {"S1", "S2", "S3"}
\* the streamId of the events fed to the manager while its sockets are explored
SessionStreamIds == {"S1"}

\* payload.server_urls of rtms_started: a ws(s) URL, a string that does not
\* start with "ws", and a string starting with "ws" that new WebSocket() rejects
ServerUrlKinds == {"wss://ok", "http://x", "ws:bad"}

\* RTMSFlagHelper.js TYPE_FLAGS, in Object.entries order
TYPE_FLAGS == << [type |-> "audio", flag |-> 1],
                 [type |-> "video", flag |-> 2],
                 [type |-> "sharescreen", flag |-> 4],
                 [type |-> "transcript", flag |-> 8],
                 [type |-> "chat", flag |-> 16] >>

\* keys of conn.media: the five types, and 'all' in unified mode
MediaKeys == {TYPE_FLAGS[i].type : i \in 1..Len(TYPE_FLAGS)} \cup {"all"}

\* the configuration routes/webhook.js calls init() with
AppConfig == [mediaTypesFlag |-> 8, useUnifiedMediaSocket |-> FALSE, maxStreamHistorySize |-> 100]

\* the configurations init() is called with
Configs == { [mediaTypesFlag |-> 1, useUnifiedMediaSocket |-> FALSE, maxStreamHistorySize |-> 1],
             [mediaTypesFlag |-> 32, useUnifiedMediaSocket |-> FALSE, maxStreamHistorySize |-> 1] }

\* media_server.server_urls of a handshake response: whether `all` is there,
\* and the media types that have a URL of their own
ServerUrlsInputs == { [all |-> TRUE, types |-> {"audio", "transcript"}],
                      [all |-> TRUE, types |-> {"transcript"}],
                      [all |-> FALSE, types |-> {"audio"}] }

\* status_code of a handshake response: success, codes of each category
\* that disables reconnect, retryable ones and one the table does not know
StatusInputs == {0, 1, 2, 4, 5, 7, 10, 11, 12, 13, 15, 16, 17, 18, 99}

\* status_code of a media handshake response
MediaStatusInputs == {0, 15}

\* (state, reason) of a msg_type 8 frame
StreamStateInputs == { <<4, 6>>, <<4, 1>>, <<3, 6>> }

\* signatureHelper.js ZOOM_STATUS_CODES: status code -> category
ZOOM_STATUS_CODES ==
    [code \in 0..20 |->
        CASE code = 0 -> "success"
          [] code \in {1, 2, 15, 18} -> "auth"
          [] code \in {3, 5} -> "meeting"
          [] code \in {4, 6} -> "stream"
          [] code = 7 -> "request"
          [] code = 8 -> "permission"
          [] code \in {9, 20} -> "limit"
          [] code \in {10, 11} -> "server"
          [] code \in {12, 13} -> "network"
          [] code = 14 -> "protocol"
          [] code = 16 -> "media"
          [] code = 17 -> "security"
          [] code = 19 -> "connection"]

\* RTMSError.fromZoomStatus(statusCode).category
FromZoomStatusCategory(statusCode) ==
    IF statusCode \in DOMAIN ZOOM_STATUS_CODES THEN ZOOM_STATUS_CODES[statusCode] ELSE "unknown"

\* ['auth', 'security', 'request', 'meeting', 'stream'].includes(error.category)
DisablesReconnect(category) == category \in {"auth", "security", "request", "meeting", "stream"}

\* a non-zero status code of category auth, security, request, meeting or stream
IsNonRetryableStatus(statusCode) ==
    /\ statusCode # 0
    /\ FromZoomStatusCategory(statusCode) \in {"auth", "security", "request", "meeting", "stream"}

\* x & flag for a flag that is a power of two
HasFlag(x, flag) == (x \div flag) % 2 = 1

RECURSIVE OrFlags(_, _)
OrFlags(types, i) ==
    IF i > Len(TYPE_FLAGS) THEN 0
    ELSE (IF TYPE_FLAGS[i].type \in types THEN TYPE_FLAGS[i].flag ELSE 0) + OrFlags(types, i + 1)

\* the effective mask as requested & available, whatever is requested
CalculateEffectiveFlagsMasked(requestedFlags, serverUrls) ==
    IF requestedFlags # 32
    THEN OrFlags({TYPE_FLAGS[i].type : i \in {j \in 1..Len(TYPE_FLAGS) :
                      HasFlag(requestedFlags, TYPE_FLAGS[j].flag)}} \cap serverUrls.types, 1)
    ELSE OrFlags(serverUrls.types, 1)

\* RTMSFlagHelper.calculateEffectiveFlags(requestedFlags, serverUrls)
CalculateEffectiveFlags(requestedFlags, serverUrls) ==
    IF requestedFlags # 32 THEN requestedFlags ELSE OrFlags(serverUrls.types, 1)

-----------------------------------------------------------------------------
(* Objects *)

\* no streamHistory entry
NoData == [firstPacketTimestamp |-> <<>>, lastPacketTimestamp |-> <<>>]

\* new RTMSManager(): constructor state after init() and start()
NewManager == [state |-> "STARTED",
               connections |-> [sid \in StreamIds |-> 0],
               streamHistory |-> [sid \in StreamIds |-> FALSE],
               streamHistoryAccessOrder |-> <<>>,
               \* history: the streamIds started, the streamIds whose history
               \* entry was evicted since their last start, and the archived
               \* streamIds from the least to the most recently archived
               started |-> {},
               evicted |-> {},
               recency |-> <<>>,
               \* the firstPacketTimestamp and lastPacketTimestamp of the
               \* streamHistory entries (<<>> is null)
               data |-> [sid \in StreamIds |-> NoData]]

\* history: the last handshake response of a session (URLs kept when status_code is 0)
NoAnswer == [status |-> -1, serverUrls |-> [all |-> FALSE, types |-> {}]]
Answer(status, serverUrls) ==
    [status |-> IF status = 0 THEN 0 ELSE 1,
     serverUrls |-> IF status = 0 THEN serverUrls ELSE NoAnswer.serverUrls]

\* conn.media[type] before connectToMediaWebSocket creates it
NoMedia == [socket |-> 0, state |-> "none", url |-> "", mediaTypeFlag |-> 0]

\* RTMSMessageHandler constructor, before its call of connect()
NewHandler(streamId, serverUrls) ==
    [streamId |-> streamId,
     serverUrls |-> serverUrls,
     shouldReconnect |-> TRUE,
     signaling |-> [socket |-> 0, state |-> "connecting"],
     signalingReconnectTimer |-> FALSE,  \* _signalingReconnectTimer holds a pending timer
     orphanTimers |-> 0,                 \* pending reconnect timers the field no longer holds
     signalingHandshakeInFlight |-> FALSE,
     firstPacketTimestamp |-> <<>>,      \* _firstPacketTimestamp; <<>> is null
     lastPacketTimestamp |-> <<>>,       \* _lastPacketTimestamp; <<>> is null
     media |-> [t \in MediaKeys |-> NoMedia],
     mediaTimers |-> [t \in MediaKeys |-> 0], \* pending media reconnect timeouts
     stopped |-> FALSE,                  \* history: stop() was called
     lastHandshake |-> NoAnswer,         \* history: the last signaling handshake response
     fatal |-> FALSE,                    \* history: a handshake failed with a non-retryable status
     ended |-> FALSE,                    \* history: msg_type 8 with state 4, reason 6 arrived
     threw |-> FALSE,                    \* history: a message handler of the session threw
     \* history: a connect attempt was blocked by a guard; a connect attempt
     \* cancelled a pending reconnect timer and went on
     connects |-> [blocked |-> FALSE, overTimer |-> FALSE]]

\* new WebSocket(url) with the listeners its creator attaches
NewSocket(owner, kind) ==
    [owner |-> owner, kind |-> kind, readyState |-> "CONNECTING",
     closeOnOpen |-> FALSE,   \* a once('open', () => ws.close()) listener is attached
     aborted |-> FALSE,       \* close() was called while CONNECTING: 'error' precedes 'close'
     awaiting |-> FALSE]      \* a handshake request was sent and is not answered yet

World(ss, ws) == [sessions |-> ss, sockets |-> ws]

IsLive(ws, k) == k # 0 /\ ws[k].readyState \in {"CONNECTING", "OPEN"}

-----------------------------------------------------------------------------
(* Sockets and connections; w is World(sessions, sockets) *)

\* ws.close(): a CONNECTING socket aborts its handshake, an OPEN one duplicates the
\* closing handshake, a CLOSING or CLOSED one is left alone
WsClose(w, k) ==
    LET rs == w.sockets[k].readyState
    IN  IF rs = "CONNECTING"
        THEN [w EXCEPT !.sockets[k].readyState = "CLOSING", !.sockets[k].aborted = TRUE,
                       !.sockets[k].closeOnOpen = FALSE]
        ELSE IF rs = "OPEN" THEN [w EXCEPT !.sockets[k].readyState = "CLOSING"]
        ELSE w

\* stop() calls ws.close() on whatever socket there is; the meeting-ended
\* handler defers the close of a CONNECTING socket to its 'open' event:
\* if (ws.readyState === CONNECTING) ws.once('open', () => ws.close()); else ws.close()
CloseSocket(w, k, defer) ==
    IF k = 0 THEN w
    ELSE IF defer /\ w.sockets[k].readyState = "CONNECTING"
    THEN [w EXCEPT !.sockets[k].closeOnOpen = TRUE]
    ELSE WsClose(w, k)

RECURSIVE CloseAllMedia(_, _, _, _)
\* Object.values(conn.media).forEach(m => close m.socket)
CloseAllMedia(w, c, keys, defer) ==
    IF keys = {} THEN w
    ELSE LET t == CHOOSE x \in keys : TRUE
         IN  CloseAllMedia(CloseSocket(w, w.sessions[c].media[t].socket, defer), c, keys \ {t}, defer)

\* a connect that resets the handshake flag and the signaling state before
\* it looks at the existing socket
ConnectToSignalingWebSocketResetsFirst(w, c) ==
    LET w0 == [w EXCEPT !.sessions[c].signalingHandshakeInFlight = FALSE,
                        !.sessions[c].signaling.state = "connecting"]
        conn == w0.sessions[c]
        blocked == [w0 EXCEPT !.sessions[c].connects.blocked = TRUE]
    IN  IF IsLive(w0.sockets, conn.signaling.socket) THEN blocked
        ELSE LET w1 == [w0 EXCEPT !.sessions[c].signalingReconnectTimer = FALSE,
                                  !.sessions[c].connects.overTimer =
                                      @ \/ conn.signalingReconnectTimer]
             IN  IF conn.serverUrls = "http://x"
                 THEN [w1 EXCEPT !.sessions[c].shouldReconnect = FALSE]
                 ELSE IF conn.serverUrls = "ws:bad" THEN w1
                 ELSE [w1 EXCEPT !.sockets = Append(@, NewSocket(c, "signaling")),
                                 !.sessions[c].signaling = [socket |-> Len(w.sockets) + 1,
                                                            state |-> "connecting"]]

\* connectToSignalingWebSocket(..., conn, ...)
ConnectToSignalingWebSocket(w, c) ==
    LET conn == w.sessions[c]
        blocked == [w EXCEPT !.sessions[c].connects.blocked = TRUE]
    IN  IF IsLive(w.sockets, conn.signaling.socket) THEN blocked
        ELSE IF conn.signalingHandshakeInFlight THEN blocked
        ELSE LET w1 == [w EXCEPT !.sessions[c].signalingReconnectTimer = FALSE,
                                 !.sessions[c].connects.overTimer =
                                     @ \/ conn.signalingReconnectTimer]
             IN  IF conn.serverUrls = "http://x"
                 THEN [w1 EXCEPT !.sessions[c].shouldReconnect = FALSE]
                 ELSE IF conn.serverUrls = "ws:bad" THEN w1
                 ELSE [w1 EXCEPT !.sockets = Append(@, NewSocket(c, "signaling")),
                                 !.sessions[c].signaling = [socket |-> Len(w.sockets) + 1,
                                                            state |-> "connecting"],
                                 !.sessions[c].signalingHandshakeInFlight = FALSE]

\* connectToMediaWebSocket(mediaUrl, ..., conn, ..., mediaType, mediaTypeFlag, emit)
ConnectToMediaWebSocket(w, c, mediaUrl, mediaType, mediaTypeFlag) ==
    [w EXCEPT !.sockets = Append(@, NewSocket(c, mediaType)),
              !.sessions[c].media[mediaType] = [socket |-> Len(w.sockets) + 1,
                                                state |-> "connecting",
                                                url |-> mediaUrl,
                                                mediaTypeFlag |-> mediaTypeFlag]]

\* msg.media_server?.server_urls?.[type] || mediaUrl
TypeUrl(serverUrls, type) == IF type \in serverUrls.types THEN "wss://" \o type ELSE "wss://all"

\* signalingWs.on('open')
SignalingOnOpen(w, k) ==
    LET c == w.sockets[k].owner
    IN  IF ~w.sessions[c].shouldReconnect THEN WsClose(w, k)
        ELSE [w EXCEPT !.sessions[c].signalingHandshakeInFlight = TRUE,
                       !.sessions[c].signaling.state = "authenticated",
                       !.sockets[k].awaiting = TRUE]

\* a close handler that arms the reconnect timer whatever shouldReconnect is
ArmReconnectAlways(conn) ==
    [conn EXCEPT !.signalingReconnectTimer = TRUE,
                 !.orphanTimers = IF conn.signalingReconnectTimer THEN @ + 1 ELSE @]

\* the reconnect branch of signalingWs.on('close'): if (conn.shouldReconnect) setTimeout(...)
ArmReconnect(conn) ==
    IF conn.shouldReconnect
    THEN [conn EXCEPT !.signalingReconnectTimer = TRUE,
                      !.orphanTimers = IF conn.signalingReconnectTimer THEN @ + 1 ELSE @]
    ELSE conn

\* signalingWs.on('close')
SignalingOnClose(w, k) ==
    LET c == w.sockets[k].owner
        conn == [w.sessions[c] EXCEPT !.signalingHandshakeInFlight = FALSE,
                                      !.signaling.state = "closed"]
    IN  [w EXCEPT !.sessions[c] = ArmReconnect(conn)]

\* signalingWs.on('error')
SignalingOnError(w, k) ==
    LET c == w.sockets[k].owner
    IN  [w EXCEPT !.sessions[c].signalingHandshakeInFlight = FALSE,
                  !.sessions[c].signaling.state = "error"]

\* mediaWs.on('open')
MediaOnOpen(w, k) ==
    LET c == w.sockets[k].owner
    IN  IF ~w.sessions[c].shouldReconnect THEN WsClose(w, k)
        ELSE [w EXCEPT !.sessions[c].media[w.sockets[k].kind].state = "authenticated",
                       !.sockets[k].awaiting = TRUE]

\* a 'close' handler of a media socket that restarts the session's
\* connection whatever the signaling state is
MediaOnCloseAlwaysConnects(w, k) ==
    LET c == w.sockets[k].owner
        t == w.sockets[k].kind
        w1 == [w EXCEPT !.sessions[c].media[t].state = "closed"]
    IN  IF ~w1.sessions[c].shouldReconnect THEN w1
        ELSE ConnectToSignalingWebSocket(w1, c)

\* mediaWs.on('close')
MediaOnClose(w, k) ==
    LET c == w.sockets[k].owner
        t == w.sockets[k].kind
        w1 == [w EXCEPT !.sessions[c].media[t].state = "closed"]
        conn == w1.sessions[c]
    IN  IF ~conn.shouldReconnect THEN w1
        ELSE IF /\ conn.signaling.state = "ready"
                /\ conn.signaling.socket # 0
                /\ w1.sockets[conn.signaling.socket].readyState = "OPEN"
        THEN [w1 EXCEPT !.sessions[c].mediaTimers[t] = @ + 1]
        ELSE ConnectToSignalingWebSocket(w1, c)

\* mediaWs.on('error')
MediaOnError(w, k) ==
    [w EXCEPT !.sessions[w.sockets[k].owner].media[w.sockets[k].kind].state = "error"]

OnOpen(w, k)  == IF w.sockets[k].kind = "signaling" THEN SignalingOnOpen(w, k) ELSE MediaOnOpen(w, k)
OnClose(w, k) == IF w.sockets[k].kind = "signaling" THEN SignalingOnClose(w, k) ELSE MediaOnClose(w, k)
OnError(w, k) == IF w.sockets[k].kind = "signaling" THEN SignalingOnError(w, k) ELSE MediaOnError(w, k)

RECURSIVE ConnectMediaTypes(_, _, _, _, _)
\* for (const [type, flag] of Object.entries(TYPE_FLAGS)) if (effectiveFlags & flag) connect...
ConnectMediaTypes(w, c, serverUrls, effectiveFlags, i) ==
    IF i > Len(TYPE_FLAGS) THEN w
    ELSE LET tf == TYPE_FLAGS[i]
             w1 == IF HasFlag(effectiveFlags, tf.flag)
                   THEN ConnectToMediaWebSocket(w, c, TypeUrl(serverUrls, tf.type), tf.type, tf.flag)
                   ELSE w
         IN  ConnectMediaTypes(w1, c, serverUrls, effectiveFlags, i + 1)

\* handleSignalingMessage, case 2 (SIGNALING_HAND_SHAKE_RESP)
HandshakeResponse(w, k, status, serverUrls) ==
    LET c == w.sockets[k].owner
        w1 == [w EXCEPT !.sessions[c].signalingHandshakeInFlight = FALSE,
                        !.sockets[k].awaiting = FALSE,
                        !.sessions[c].lastHandshake = Answer(status, serverUrls),
                        !.sessions[c].fatal = @ \/ IsNonRetryableStatus(status)]
    IN  IF status = 0
        THEN IF ~serverUrls.all            \* new URL(undefined) throws out of the handler
             THEN [w1 EXCEPT !.sessions[c].threw = TRUE]
             ELSE LET w2 == [w1 EXCEPT !.sessions[c].signaling.state = "ready"]
                      effectiveFlags == CalculateEffectiveFlags(config.mediaTypesFlag, serverUrls)
                  IN  IF config.useUnifiedMediaSocket
                      THEN ConnectToMediaWebSocket(w2, c, "wss://all", "all", effectiveFlags)
                      ELSE ConnectMediaTypes(w2, c, serverUrls, effectiveFlags, 1)
        ELSE IF DisablesReconnect(FromZoomStatusCategory(status))
             THEN [w1 EXCEPT !.sessions[c].shouldReconnect = FALSE]
             ELSE w1

\* handleSignalingMessage, case 8 (stream state changed)
StreamStateChanged(w, k, state, reason) ==
    LET c == w.sockets[k].owner
    IN  IF reason = 6 /\ state = 4
        THEN LET w1 == [w EXCEPT !.sessions[c].shouldReconnect = FALSE,
                                 !.sessions[c].ended = TRUE,
                                 !.sessions[c].signaling.state = "closed"]
                 w2 == CloseSocket(w1, w1.sessions[c].signaling.socket, TRUE)
             IN  CloseAllMedia(w2, c, MediaKeys, TRUE)
        ELSE w

\* handleMediaMessage, case 4 (DATA_HAND_SHAKE_RESP)
MediaHandshakeResponse(w, k, status) ==
    LET c == w.sockets[k].owner
        t == w.sockets[k].kind
        w1 == [w EXCEPT !.sockets[k].awaiting = FALSE,
                        !.sessions[c].fatal = @ \/ IsNonRetryableStatus(status)]
    IN  IF status = 0
        THEN [w1 EXCEPT !.sessions[c].media[t].state = "streaming"]
        ELSE IF DisablesReconnect(FromZoomStatusCategory(status))
             THEN [w1 EXCEPT !.sessions[c].shouldReconnect = FALSE]
             ELSE w1

\* RTMSMessageHandler.stop()
HandlerStop(w, c) ==
    LET w1 == [w EXCEPT !.sessions[c].shouldReconnect = FALSE,
                        !.sessions[c].lastPacketTimestamp = <<clock.now>>,
                        !.sessions[c].stopped = TRUE,
                        !.sessions[c].signalingReconnectTimer = FALSE]
        w2 == CloseSocket(w1, w1.sessions[c].signaling.socket, FALSE)
    IN  CloseAllMedia(w2, c, MediaKeys, FALSE)

\* a registry that never finds the streamId
HasNever(mgr, streamId) == FALSE

\* ActiveConnectionManager.has(streamId)
Has(mgr, streamId) == mgr.connections[streamId] # 0

\* RTMSManager.archiveStream(streamId, data): the eviction loop
RECURSIVE Evict(_, _)
Evict(mgr, entriesToRemove) ==
    IF entriesToRemove = 0 \/ mgr.streamHistoryAccessOrder = <<>> THEN mgr
    ELSE LET oldestStreamId == Head(mgr.streamHistoryAccessOrder)
         IN  Evict([mgr EXCEPT !.streamHistoryAccessOrder = Tail(@),
                               !.streamHistory[oldestStreamId] = FALSE,
                               !.data[oldestStreamId] = NoData,
                               !.evicted = IF mgr.streamHistory[oldestStreamId]
                                           THEN @ \cup {oldestStreamId} ELSE @],
                   entriesToRemove - 1)

HistorySize(mgr) == Cardinality({sid \in StreamIds : mgr.streamHistory[sid]})

\* RTMSManager.archiveStream(streamId, data)
ArchiveStream(mgr, streamId, data) ==
    LET maxSize == IF config.maxStreamHistorySize = 0 THEN 100 ELSE config.maxStreamHistorySize
        m1 == [mgr EXCEPT !.streamHistory[streamId] = TRUE,
                          !.data[streamId] = data,
                          !.streamHistoryAccessOrder = Append(@, streamId),
                          !.recency = Append(SelectSeq(@, LAMBDA x : x # streamId), streamId)]
    IN  IF HistorySize(m1) > maxSize THEN Evict(m1, HistorySize(m1) - maxSize) ELSE m1

\* RTMSManager.getStreamMetadata(streamId) !== null
GetStreamMetadataNonNull(streamId) ==
    manager.connections[streamId] # 0 \/ manager.streamHistory[streamId]

\* RTMSManager.getStreamTimestamps(streamId) !== null
GetStreamTimestampsNonNull(streamId) ==
    manager.connections[streamId] # 0 \/ manager.streamHistory[streamId]

RECURSIVE StopAll(_, _)
\* for (const handler of handlers) handler.stop()
StopAll(w, cs) ==
    IF cs = {} THEN w
    ELSE LET c == CHOOSE x \in cs : TRUE IN StopAll(HandlerStop(w, c), cs \ {c})

-----------------------------------------------------------------------------
(* Actions of the RTMS manager and its sessions *)

W == World(sessions, sockets)

\* a handler object nothing refers to any more: it is out of the registry, its
\* sockets are closed and none of its timers is pending
Unreachable(w, mgr, c) ==
    /\ \A sid \in StreamIds : mgr.connections[sid] # c
    /\ \A k \in 1..Len(w.sockets) : w.sockets[k].owner = c => w.sockets[k].readyState = "CLOSED"
    /\ ~w.sessions[c].signalingReconnectTimer
    /\ w.sessions[c].orphanTimers = 0
    /\ \A t \in MediaKeys : w.sessions[c].mediaTimers[t] = 0

\* what is left of a handler object once it is garbage
Collected == [NewHandler("", "") EXCEPT !.shouldReconnect = FALSE, !.stopped = TRUE]

\* the step ends in world w and manager mgr; unreachable handlers are
\* collected, and the socket bound caps the exploration
Becomes(w, mgr) ==
    /\ Len(w.sockets) <= limits.sockets
    /\ manager' = mgr
    /\ sessions' = [c \in 1..Len(w.sessions) |->
                        IF Unreachable(w, mgr, c) THEN Collected ELSE w.sessions[c]]
    /\ sockets' = w.sockets

\* RTMSManager.onStreamStart(...): the manager, its sessions and sockets
StreamStart(streamId, serverUrls) ==
    IF Has(manager, streamId)
       THEN /\ duplicates[streamId] < MaxDuplicates
            /\ duplicates' = [duplicates EXCEPT ![streamId] = @ + 1]
            /\ UNCHANGED <<manager, sessions, sockets>>
       ELSE /\ Len(sessions) < MaxSessions
            /\ UNCHANGED duplicates
            /\ LET c == Len(sessions) + 1
                   w == World(Append(sessions, NewHandler(streamId, serverUrls)), sockets)
               IN  Becomes(ConnectToSignalingWebSocket(w, c),
                           [manager EXCEPT !.connections[streamId] = c,
                                           !.started = @ \cup {streamId},
                                           !.evicted = @ \ {streamId}])

\* RTMSManager.onStreamStart, on a *.rtms_started event
OnStreamStart(streamId, serverUrls) ==
    /\ StreamStart(streamId, serverUrls)
    /\ UNCHANGED <<config, bufVars, filVars, inits, posts, restVars>>

\* RTMSManager.onStreamStop(streamId): the manager, its sessions and sockets
StreamStop(streamId) ==
    LET c == manager.connections[streamId]
    IN  IF c # 0
        THEN LET w1 == HandlerStop(W, c)
                 handler == w1.sessions[c]
                 mgr == ArchiveStream(manager, streamId,
                            [firstPacketTimestamp |-> handler.firstPacketTimestamp,
                             lastPacketTimestamp  |-> handler.lastPacketTimestamp])
             IN  /\ Len(mgr.streamHistoryAccessOrder) <= MaxAccessOrder
                 /\ Becomes(w1, [mgr EXCEPT !.connections[streamId] = 0])
        ELSE UNCHANGED <<manager, sessions, sockets>>

\* RTMSManager.onStreamStop, on a *.rtms_stopped event
OnStreamStop(streamId) ==
    /\ StreamStop(streamId)
    /\ UNCHANGED <<config, duplicates, bufVars, filVars, inits, posts, restVars>>

\* RTMSManager.stop()
ManagerStop ==
    /\ IF manager.state # "STARTED"
       THEN UNCHANGED <<manager, sessions, sockets>>
       ELSE Becomes(StopAll(W, {manager.connections[sid] : sid \in StreamIds} \ {0}),
                    [manager EXCEPT !.connections = [sid \in StreamIds |-> 0],
                                    !.state = "STOPPED"])
    /\ UNCHANGED <<config, duplicates, bufVars, filVars, inits, posts, restVars>>

\* RTMSManager.start()
ManagerStart ==
    /\ manager' = [manager EXCEPT !.state = "STARTED"]
    /\ UNCHANGED <<config, sessions, sockets, duplicates, bufVars, filVars, inits, posts, restVars>>

\* the connection of socket k is established: 'open' listeners run in order
SocketOpen(k) ==
    /\ sockets[k].readyState = "CONNECTING"
    /\ LET w1 == OnOpen([W EXCEPT !.sockets[k].readyState = "OPEN"], k)
           w2 == IF w1.sockets[k].closeOnOpen
                 THEN WsClose([w1 EXCEPT !.sockets[k].closeOnOpen = FALSE], k)
                 ELSE w1
       IN  Becomes(w2, manager)
    /\ UNCHANGED <<config, duplicates, bufVars, filVars, inits, posts, restVars>>

\* the connection attempt of socket k fails: 'error', then 'close'
SocketConnectFails(k) ==
    /\ sockets[k].readyState = "CONNECTING"
    /\ Becomes(OnClose(OnError([W EXCEPT !.sockets[k].readyState = "CLOSED",
                                          !.sockets[k].closeOnOpen = FALSE], k), k), manager)
    /\ UNCHANGED <<config, duplicates, bufVars, filVars, inits, posts, restVars>>

\* an established socket k breaks: 'error' now, 'close' follows
SocketError(k) ==
    /\ sockets[k].readyState = "OPEN"
    /\ Becomes(OnError([W EXCEPT !.sockets[k].readyState = "CLOSING"], k), manager)
    /\ UNCHANGED <<config, duplicates, bufVars, filVars, inits, posts, restVars>>

\* socket k is closed, by the peer or at the end of its closing: 'close'
\* (after 'error', when close() had aborted the connection attempt)
SocketClosed(k) ==
    /\ sockets[k].readyState \in {"OPEN", "CLOSING"}
    /\ LET w1 == [W EXCEPT !.sockets[k].readyState = "CLOSED", !.sockets[k].aborted = FALSE,
                           !.sockets[k].awaiting = FALSE]
       IN  Becomes(OnClose(IF sockets[k].aborted THEN OnError(w1, k) ELSE w1, k), manager)
    /\ UNCHANGED <<config, duplicates, bufVars, filVars, inits, posts, restVars>>

\* signalingWs.on('message') with the answer to the handshake request
SignalingHandshakeResponse(k, status, serverUrls) ==
    /\ sockets[k].kind = "signaling" /\ sockets[k].readyState = "OPEN" /\ sockets[k].awaiting
    /\ Becomes(HandshakeResponse(W, k, status, serverUrls), manager)
    /\ UNCHANGED <<config, duplicates, bufVars, filVars, inits, posts, restVars>>

\* signalingWs.on('message') with a msg_type 8 frame
SignalingStreamState(k, state, reason) ==
    /\ sockets[k].kind = "signaling" /\ sockets[k].readyState = "OPEN" /\ ~sockets[k].awaiting
    /\ Becomes(StreamStateChanged(W, k, state, reason), manager)
    /\ UNCHANGED <<config, duplicates, bufVars, filVars, inits, posts, restVars>>

\* mediaWs.on('message') with the answer to the media handshake request
MediaHandshake(k, status) ==
    /\ sockets[k].kind # "signaling" /\ sockets[k].readyState = "OPEN" /\ sockets[k].awaiting
    /\ Becomes(MediaHandshakeResponse(W, k, status), manager)
    /\ UNCHANGED <<config, duplicates, bufVars, filVars, inits, posts, restVars>>

\* a 3 s signaling reconnect timer of session c fires: the one the field
\* _signalingReconnectTimer holds, or one that a later timer replaced there
SignalingReconnectTimer(c, replaced) ==
    /\ IF replaced THEN sessions[c].orphanTimers > 0 ELSE sessions[c].signalingReconnectTimer
    /\ LET conn == sessions[c]
           w1 == [W EXCEPT !.sessions[c].signalingReconnectTimer = FALSE,
                           !.sessions[c].orphanTimers =
                               IF replaced
                               THEN @ - 1 + (IF conn.signalingReconnectTimer THEN 1 ELSE 0)
                               ELSE @]
       IN  Becomes(IF conn.shouldReconnect THEN ConnectToSignalingWebSocket(w1, c) ELSE w1, manager)
    /\ UNCHANGED <<config, duplicates, bufVars, filVars, inits, posts, restVars>>

\* a 3 s media reconnect timeout of session c fires
MediaReconnectTimer(c, mediaType) ==
    /\ sessions[c].mediaTimers[mediaType] > 0
    /\ LET w1 == [W EXCEPT !.sessions[c].mediaTimers[mediaType] = @ - 1]
       IN  Becomes(ConnectToMediaWebSocket(w1, c, sessions[c].media[mediaType].url, mediaType,
                                           sessions[c].media[mediaType].mediaTypeFlag), manager)
    /\ UNCHANGED <<config, duplicates, bufVars, filVars, inits, posts, restVars>>

\* config.useFiller is off: this.audioFiller = null, this.videoFiller = null
NoFiller == [kind |-> "none", frameDuration |-> 0, expectedTimestamp |-> <<>>,
             isFirstPacket |-> TRUE, buffer |-> <<>>, timer |-> FALSE, isStopped |-> FALSE,
             lastOp |-> "none", endTime |-> <<>>, received |-> 0]

FillerIdle ==
    /\ filler = NoFiller
    /\ emitted = <<>>

\* the sockets that receive keep-alive requests: the signaling socket and a
\* media socket of two sessions, all OPEN
KeepAliveSockets == {"signaling-1", "media-1", "signaling-2", "media-2"}

\* const keepAliveResponse = { msg_type: 13, timestamp: 0 }, and no frame yet.
\* inbox: the requests received and not yet handled; handled: the timestamps
\* of the requests handled; sent: the frames passed to send(), as serialised
NoKeepAlive ==
    [response |-> [msg_type |-> 13, timestamp |-> 0],
     inbox    |-> [k \in KeepAliveSockets |-> <<>>],
     handled  |-> [k \in KeepAliveSockets |-> <<>>],
     sent     |-> [k \in KeepAliveSockets |-> <<>>],
     received |-> 0]    \* history: the number of requests received

\* the subsystems that are specified on their own are idle
\* routes/webhook.js as loaded: rtmsInitialized is false and no request has
\* come; awaiting and returned count the ensureRTMSInitialized calls that
\* are at their await and that are over, listeners the 'transcript'
\* listeners on the manager, events the 'transcript' events it emitted
NotEnsured == [rtmsInitialized |-> FALSE, awaiting |-> 0, returned |-> 0,
               listeners |-> 0, events |-> 0]

\* new WebsocketManager(options): no socket (ws is 0), no timer; sockets are
\* the readyStates of the sockets it created, awaiting the connect calls that
\* wait for their access token, stopped whether stop() was called
NewWebsocketManager ==
    [ws |-> 0, sockets |-> <<>>, reconnectInterval |-> FALSE, heartbeatInterval |-> FALSE,
     reconnectAttempts |-> 0, awaiting |-> 0, started |-> FALSE, stopped |-> FALSE]

RestIdle ==
    /\ keepAlive = NoKeepAlive
    /\ eventWs = NewWebsocketManager
    /\ ensured = NotEnsured
    /\ limits = [sockets |-> MaxSockets]

\* no request has reached POST /webhook
NoPosts == [toggle |-> FALSE, signed |-> TRUE, status |-> 0]

\* RTMSManager.init ran once: one instance constructed, its lifecycle
\* listeners registered once, no call in flight
InitsDone == [constructed |-> 1, wired |-> 1, pending |-> <<>>, returned |-> <<>>]

SessionIdle ==
    /\ inits = InitsDone
    /\ posts = NoPosts
    /\ RestIdle
    /\ FillerIdle
    /\ manager = NewManager
    /\ sessions = <<>>
    /\ sockets = <<>>
    /\ duplicates = [sid \in StreamIds |-> 0]

InitSession ==
    /\ config \in Configs
    /\ SessionIdle
    /\ buffers = [m \in Meetings |-> NoBuffer]
    /\ created = [m \in Meetings |-> 0]
    /\ appended = <<>>
    /\ chunkLog = <<>>
    /\ summaryLog = <<>>
    /\ RoutesIdle

NextSession ==
    \/ \E sid \in SessionStreamIds, url \in ServerUrlKinds : OnStreamStart(sid, url)
    \/ \E sid \in SessionStreamIds : OnStreamStop(sid)
    \/ ManagerStop
    \/ ManagerStart
    \/ \E k \in 1..Len(sockets) : SocketOpen(k)
    \/ \E k \in 1..Len(sockets) : SocketConnectFails(k)
    \/ \E k \in 1..Len(sockets) : SocketError(k)
    \/ \E k \in 1..Len(sockets) : SocketClosed(k)
    \/ \E k \in 1..Len(sockets), st \in StatusInputs, urls \in ServerUrlsInputs :
           SignalingHandshakeResponse(k, st, urls)
    \/ \E k \in 1..Len(sockets), ss \in StreamStateInputs : SignalingStreamState(k, ss[1], ss[2])
    \/ \E k \in 1..Len(sockets), st \in MediaStatusInputs : MediaHandshake(k, st)
    \/ \E c \in 1..Len(sessions), replaced \in BOOLEAN : SignalingReconnectTimer(c, replaced)
    \/ \E c \in 1..Len(sessions), t \in MediaKeys : MediaReconnectTimer(c, t)

SpecSession == InitSession /\ [][NextSession]_vars

-----------------------------------------------------------------------------
(* The packet timestamps of a session, from its start to its archive *)

\* number of steps of TimeStep ms the local clock makes
MaxTicks == 3

\* msg.event.timestamp of a FIRST_PACKET_TIMESTAMP event: the sender's clock
FirstPacketInputs == {500, 2500}

\* handleSignalingMessage, case 6, event_type 1: conn.setFirstPacketTimestamp(ts)
SetFirstPacketTimestamp(conn, ts) ==
    IF conn.firstPacketTimestamp = <<>> THEN [conn EXCEPT !.firstPacketTimestamp = <<ts>>]
    ELSE conn

\* signalingWs.on('message') with a msg_type 6 frame, event_type 1
FirstPacketEvent(k, ts) ==
    /\ sockets[k].kind = "signaling" /\ sockets[k].readyState = "OPEN" /\ ~sockets[k].awaiting
    /\ Becomes([W EXCEPT !.sessions[sockets[k].owner] = SetFirstPacketTimestamp(@, ts)], manager)
    /\ UNCHANGED <<config, duplicates, bufVars, filVars, inits, posts, restVars>>

\* the local clock, Date.now(), advances
ClockTicks ==
    /\ clock.now < MaxTicks * TimeStep
    /\ clock' = [clock EXCEPT !.now = @ + TimeStep]
    /\ UNCHANGED <<buffers, created, appended, chunkLog, summaryLog, routes, destroyed>>
    /\ UNCHANGED <<sesVars, filVars, inits, posts, restVars>>

InitTimestamps ==
    /\ config = AppConfig
    /\ SessionIdle
    /\ buffers = [m \in Meetings |-> NoBuffer]
    /\ created = [m \in Meetings |-> 0]
    /\ appended = <<>>
    /\ chunkLog = <<>>
    /\ summaryLog = <<>>
    /\ RoutesIdle

NextTimestamps ==
    \/ \E sid \in SessionStreamIds : OnStreamStart(sid, "wss://ok")
    \/ \E sid \in SessionStreamIds : OnStreamStop(sid)
    \/ \E k \in 1..Len(sockets) : SocketOpen(k)
    \/ \E k \in 1..Len(sockets) :
           SignalingHandshakeResponse(k, 0, [all |-> TRUE, types |-> {"transcript"}])
    \/ \E k \in 1..Len(sockets), ts \in FirstPacketInputs : FirstPacketEvent(k, ts)
    \/ \E k \in 1..Len(sockets) : SocketClosed(k)
    \/ \E c \in 1..Len(sessions) : SignalingReconnectTimer(c, FALSE)
    \/ ClockTicks

SpecTimestamps == InitTimestamps /\ [][NextTimestamps]_vars

-----------------------------------------------------------------------------
(* The registry and the history of the manager over several streams *)

\* options of RTMSManager.init: transcript only, a history of one or two entries
HistoryConfigs ==
    { [mediaTypesFlag |-> 8, useUnifiedMediaSocket |-> FALSE, maxStreamHistorySize |-> n] :
          n \in {1, 2} }

\* every handler object and every socket is garbage: the heap holds none
Reclaim ==
    /\ sessions # <<>>
    /\ \A c \in 1..Len(sessions) : Unreachable(W, manager, c)
    /\ sessions' = <<>>
    /\ sockets' = <<>>
    /\ UNCHANGED <<config, manager, duplicates, bufVars, filVars, inits, posts, restVars>>

InitHistory ==
    /\ config \in HistoryConfigs
    /\ SessionIdle
    /\ buffers = [m \in Meetings |-> NoBuffer]
    /\ created = [m \in Meetings |-> 0]
    /\ appended = <<>>
    /\ chunkLog = <<>>
    /\ summaryLog = <<>>
    /\ RoutesIdle

NextHistory ==
    \/ \E sid \in StreamIds : OnStreamStart(sid, "wss://ok")
    \/ \E sid \in StreamIds : OnStreamStop(sid)
    \/ ManagerStop
    \/ ManagerStart
    \/ \E k \in 1..Len(sockets) : SocketClosed(k)
    \/ Reclaim

SpecHistory == InitHistory /\ [][NextHistory]_vars

-----------------------------------------------------------------------------
(* Actions of the transcript buffer subsystem *)

Emit(o) ==
    /\ chunkLog' = chunkLog \o o.chunks
    /\ summaryLog' = summaryLog \o o.sums

\* getOrCreateBuffer(meetingId).append(...) as both callers do it, on the
\* registry bufs that wireBufferEvents may have left
AppendTo(bufs, m, sp, text) ==
    /\ buffers[m].exists \/ created[m] < MaxBuffers
    /\ created' = [created EXCEPT ![m] = IF buffers[m].exists THEN @ ELSE @ + 1]
    /\ LET bs == GetOrCreateBuffer(bufs, m)
           o  == BufferAppend(Out(bs[m], <<>>, <<>>), sp, UserName(sp), text)
       IN  /\ buffers' = [bs EXCEPT ![m] = o.buf]
           /\ Emit(o)
    /\ appended' = Append(appended, [meetingId |-> m, speakerId |-> sp,
                                     speakerName |-> UserName(sp), text |-> text.str])

\* webhook.js: RTMSManager.on('transcript', ...) ; the media handler only
\* forwards a transcript whose content.data is truthy, so the text is not ""
TranscriptListener(m, sp, text) ==
    /\ LET wd == WireBufferEvents(buffers, routes.webhook, m)
       IN  /\ AppendTo(wd.buffers, m, sp, text)
           /\ routes' = [routes EXCEPT !.webhook = wd.wired]
    /\ UNCHANGED destroyed

\* a 'transcript' event of the manager
OnTranscript(m, sp, text) ==
    /\ Len(appended) < MaxAppends
    /\ text.str # ""
    /\ TranscriptListener(m, sp, text)
    /\ UNCHANGED <<clock, sesVars, filVars, inits, posts, restVars>>

\* routes/rtms: wss.on('connection') with a meetingId in the URL
WsConnection(m) ==
    /\ routes.wsConnections[m] < MaxWsConnections
    /\ buffers[m].exists \/ m \in routes.rtms \/ created[m] < MaxBuffers
    /\ LET wd == WireBufferEvents(buffers, routes.rtms, m)
       IN  /\ buffers' = wd.buffers
           /\ created' = [created EXCEPT ![m] = IF wd.buffers[m].exists /\ ~buffers[m].exists
                                                THEN @ + 1 ELSE @]
           /\ routes' = [routes EXCEPT !.rtms = wd.wired, !.wsConnections[m] = @ + 1]
    /\ UNCHANGED <<appended, chunkLog, summaryLog, destroyed, clock, sesVars, filVars, inits, posts, restVars>>

\* routes/rtms: ws.on('message') ; transcript.text comes from the client as is
WsMessage(m, sp, text) ==
    /\ routes.wsConnections[m] > 0
    /\ Len(appended) < MaxAppends
    /\ AppendTo(buffers, m, sp, text)
    /\ UNCHANGED <<routes, destroyed, clock, sesVars, filVars, inits, posts, restVars>>

\* what is left of a TranscriptBuffer object once destroy() has returned
Remains(b) == [timers    |-> b.summaryTimer \/ b.chunkTimer \/ b.speakerIdleTimers # {},
               listeners |-> b.listeners]

\* destroyBuffer(meetingId)
DestroyBuffer(m) ==
    IF m \in Meetings /\ buffers[m].exists
    THEN LET o == BufferDestroy(Out(buffers[m], <<>>, <<>>))
         IN  /\ buffers' = [buffers EXCEPT ![m] = NoBuffer]
             /\ Emit(o)
             /\ destroyed' = [destroyed EXCEPT ![m] = Append(@, Remains(o.buf))]
    ELSE UNCHANGED <<buffers, chunkLog, summaryLog, destroyed>>

\* routes/rtms: ws.on('close')
WsClosed(m) ==
    /\ routes.wsConnections[m] > 0
    /\ DestroyBuffer(m)
    /\ routes' = [routes EXCEPT !.rtms = @ \ {m}, !.wsConnections[m] = @ - 1]
    /\ UNCHANGED <<appended, created, clock, sesVars, filVars, inits, posts, restVars>>

\* the callback of the speaker-idle timeout armed by append()
SpeakerIdleFires(m, sp) ==
    /\ buffers[m].exists
    /\ sp \in buffers[m].speakerIdleTimers
    /\ LET o == TriggerSpeakerSummary(Out(buffers[m], <<>>, <<>>), sp)
       IN  /\ buffers' = [buffers EXCEPT ![m] = [o.buf EXCEPT !.speakerIdleTimers = @ \ {sp}]]
           /\ Emit(o)
    /\ UNCHANGED <<appended, created, routes, destroyed>>

\* the speaker-idle timeout armed by append() fires
SpeakerIdleTimeout(m, sp) ==
    /\ SpeakerIdleFires(m, sp)
    /\ UNCHANGED <<clock, sesVars, filVars, inits, posts, restVars>>

\* the callback of the periodic summary interval
SummaryFires(m) ==
    /\ buffers[m].exists /\ buffers[m].summaryTimer
    /\ LET o == TriggerSummaries(Out(buffers[m], <<>>, <<>>))
       IN  /\ buffers' = [buffers EXCEPT ![m] = o.buf]
           /\ Emit(o)
    /\ UNCHANGED <<appended, created, routes, destroyed>>

\* the periodic summary interval fires
SummaryInterval(m) ==
    /\ SummaryFires(m)
    /\ UNCHANGED <<clock, sesVars, filVars, inits, posts, restVars>>

\* the callback of the periodic chunk interval
ChunkFires(m) ==
    /\ buffers[m].exists /\ buffers[m].chunkTimer
    /\ LET o == TriggerChunkFlush(Out(buffers[m], <<>>, <<>>))
       IN  /\ buffers' = [buffers EXCEPT ![m] = o.buf]
           /\ Emit(o)
    /\ UNCHANGED <<appended, created, routes, destroyed>>

\* the periodic chunk interval fires
ChunkInterval(m) ==
    /\ ChunkFires(m)
    /\ UNCHANGED <<clock, sesVars, filVars, inits, posts, restVars>>

InitBuffer ==
    /\ buffers = [m \in Meetings |-> NoBuffer]
    /\ created = [m \in Meetings |-> 0]
    /\ appended = <<>>
    /\ chunkLog = <<>>
    /\ summaryLog = <<>>
    /\ RoutesIdle
    /\ config = AppConfig
    /\ SessionIdle

NextBuffer ==
    \/ \E m \in Meetings, in \in Inputs : OnTranscript(m, in[1], in[2])
    \/ \E m \in Meetings : WsConnection(m)
    \/ \E m \in Meetings, in \in Inputs : WsMessage(m, in[1], in[2])
    \/ \E m \in Meetings : WsClosed(m)
    \/ \E m \in Meetings, sp \in Speakers : SpeakerIdleTimeout(m, sp)
    \/ \E m \in Meetings : SummaryInterval(m)
    \/ \E m \in Meetings : ChunkInterval(m)

SpecBuffer == InitBuffer /\ [][NextBuffer]_vars

-----------------------------------------------------------------------------
(* The transcript buffer in time: setInterval and setTimeout with their delays *)

\* the utterances of speaker U1 fed to meeting UUID-A, in order
ScenarioTexts == << TextOf(<<"hello">>), TextOf(<<"world">>), TextOf(<<"again">>) >>

\* the due times of the pending timers of the buffer of meeting m
DueTimes(m) ==
    IF ~buffers[m].exists THEN {}
    ELSE {clock.idleDue[sp] : sp \in buffers[m].speakerIdleTimers}
         \cup (IF buffers[m].summaryTimer THEN {clock.summaryDue} ELSE {})
         \cup (IF buffers[m].chunkTimer THEN {clock.chunkDue} ELSE {})

SetMin(S) == CHOOSE x \in S : \A y \in S : x <= y

\* the clock after a callback ran at clock.now: the new events get the time,
\* and a speaker timer that was cleared has no due time any more
Ran(clk, m) ==
    [clk EXCEPT !.summaryAt = @ \o [i \in 1..(Len(summaryLog') - Len(summaryLog)) |-> clk.now],
                !.chunkAt   = @ \o [i \in 1..(Len(chunkLog') - Len(chunkLog)) |-> clk.now],
                !.idleDue   = [sp \in Speakers |->
                                  IF buffers'[m].exists /\ sp \in buffers'[m].speakerIdleTimers
                                  THEN @[sp] ELSE -1]]

\* the next utterance arrives as a 'transcript' event: the listener creates
\* the buffer if there is none (setInterval twice) and appends (setTimeout)
TimedTranscript(m, sp) ==
    /\ clock.said < Len(ScenarioTexts)
    /\ clock.now <= ScenarioWindow
    /\ (clock.said = 0) = ~buffers[m].exists
    /\ TranscriptListener(m, sp, ScenarioTexts[clock.said + 1])
    /\ clock' = Ran([clock EXCEPT
                        !.said = @ + 1,
                        !.lastAppend = clock.now,
                        !.summaryDue = IF buffers[m].exists THEN @
                                       ELSE clock.now + SUMMARY_INTERVAL_MS,
                        !.chunkDue   = IF buffers[m].exists THEN @
                                       ELSE clock.now + CHUNK_INTERVAL_MS,
                        !.idleDue[sp] = clock.now + SPEAKER_IDLE_MS], m)
    /\ UNCHANGED <<sesVars, filVars, inits, posts, restVars>>

\* the speaker-idle timeout is due
TimedSpeakerIdle(m, sp) ==
    /\ clock.idleDue[sp] = clock.now
    /\ SpeakerIdleFires(m, sp)
    /\ clock' = Ran(clock, m)
    /\ UNCHANGED <<sesVars, filVars, inits, posts, restVars>>

\* the summary interval is due; setInterval re-arms it
TimedSummary(m) ==
    /\ clock.summaryDue = clock.now
    /\ SummaryFires(m)
    /\ clock' = Ran([clock EXCEPT !.summaryDue = clock.now + SUMMARY_INTERVAL_MS], m)
    /\ UNCHANGED <<sesVars, filVars, inits, posts, restVars>>

\* the chunk interval is due; setInterval re-arms it
TimedChunk(m) ==
    /\ clock.chunkDue = clock.now
    /\ ChunkFires(m)
    /\ clock' = Ran([clock EXCEPT !.chunkDue = clock.now + CHUNK_INTERVAL_MS], m)
    /\ UNCHANGED <<sesVars, filVars, inits, posts, restVars>>

\* time passes, as far as the next due timer at most; the utterances are
\* all fed before the window closes
TimePasses(m) ==
    /\ buffers[m].exists
    /\ clock.now < MaxNow
    /\ \A t \in DueTimes(m) : t > clock.now
    /\ LET next == SetMin(DueTimes(m) \cup {clock.now + TimeStep})
       IN  /\ next <= ScenarioWindow \/ clock.said = Len(ScenarioTexts)
           /\ clock' = [clock EXCEPT !.now = next]
    /\ UNCHANGED <<buffers, created, appended, chunkLog, summaryLog, routes, destroyed>>
    /\ UNCHANGED <<sesVars, filVars, inits, posts, restVars>>

InitTimed == InitBuffer

NextTimed ==
    \/ TimedTranscript("UUID-A", "U1")
    \/ \E sp \in Speakers : TimedSpeakerIdle("UUID-A", sp)
    \/ TimedSummary("UUID-A")
    \/ TimedChunk("UUID-A")
    \/ TimePasses("UUID-A")

SpecTimed == InitTimed /\ [][NextTimed]_vars

-----------------------------------------------------------------------------
(* RTMSManager.init *)

\* number of RTMSManager.init calls
MaxInitCalls == 3

\* options of RTMSManager.init; 0 is a missing field
InitOptions == {[mediaTypes |-> mt, maxStreamHistorySize |-> n] : mt \in {0, 1, 8}, n \in {0, 1}}

\* RTMSManager.#instance is null
NoInstance == [NewManager EXCEPT !.state = "NONE"]

\* the config of a process that has not called init
NoConfig == [mediaTypesFlag |-> 0, useUnifiedMediaSocket |-> FALSE, maxStreamHistorySize |-> 0]

\* RTMSConfigHelper.merge(options) and the internalConfig built from it
MergeConfig(options) ==
    [mediaTypesFlag        |-> IF options.mediaTypes = 0 THEN 32 ELSE options.mediaTypes,
     useUnifiedMediaSocket |-> FALSE,
     maxStreamHistorySize  |-> IF options.maxStreamHistorySize = 0 THEN 100
                               ELSE options.maxStreamHistorySize]

\* an instance test that never finds one
NoInstanceEver(mgr) == FALSE

\* if (RTMSManager.#instance)
HasInstance(mgr) == mgr.state # "NONE"

\* what an init call hands back: the instance, with the config it holds
Returned(options) ==
    [options |-> options, config |-> config, state |-> manager.state,
     overlapped |-> inits.pending # <<>>]

\* the body of RTMSManager.init(options), up to its return or its await
InitBody(options) ==
    IF HasInstance(manager)
    THEN /\ UNCHANGED <<config, manager>>
         /\ inits' = [inits EXCEPT !.returned = Append(@, Returned(options))]
    ELSE /\ config' = MergeConfig(options)
         /\ manager' = NewManager
         /\ inits' = [inits EXCEPT !.constructed = @ + 1, !.wired = @ + 1,
                                   !.pending = Append(@, options)]

\* RTMSManager.init(options), up to its return or its await
InitCall(options) ==
    /\ Len(inits.pending) + Len(inits.returned) < MaxInitCalls
    /\ InitBody(options)
    /\ UNCHANGED <<sessions, sockets, duplicates, bufVars, filVars, posts, restVars>>

\* RTMSManager.init, after `await RTMSManager.#instance.start()`
InitResumes ==
    /\ inits.pending # <<>>
    /\ inits' = [inits EXCEPT !.pending = Tail(@),
                              !.returned = Append(@, Returned(Head(inits.pending)))]
    /\ UNCHANGED <<sesVars, bufVars, filVars, posts, restVars>>

\* a process that has not called RTMSManager.init yet
InitProcess ==
    /\ inits = [constructed |-> 0, wired |-> 0, pending |-> <<>>, returned |-> <<>>]
    /\ posts = NoPosts
    /\ RestIdle
    /\ config = NoConfig
    /\ manager = NoInstance
    /\ sessions = <<>>
    /\ sockets = <<>>
    /\ duplicates = [sid \in StreamIds |-> 0]
    /\ FillerIdle
    /\ buffers = [m \in Meetings |-> NoBuffer]
    /\ created = [m \in Meetings |-> 0]
    /\ appended = <<>>
    /\ chunkLog = <<>>
    /\ summaryLog = <<>>
    /\ RoutesIdle

NextInit ==
    \/ \E options \in InitOptions : InitCall(options)
    \/ InitResumes
    \/ HasInstance(manager) /\ ManagerStop
    \/ HasInstance(manager) /\ ManagerStart
    \/ \E sid \in SessionStreamIds : HasInstance(manager) /\ OnStreamStart(sid, "wss://ok")
    \/ \E sid \in SessionStreamIds : HasInstance(manager) /\ OnStreamStop(sid)
    \/ \E k \in 1..Len(sockets) : SocketClosed(k)

SpecInit == InitProcess /\ [][NextInit]_vars

-----------------------------------------------------------------------------
(* The webhook route: Zoom events in, transcripts of the sessions out *)

\* payload.meeting_uuid of the rtms_started event of a stream: the rtmsId of
\* its session and the meetingId of the transcript events it emits
MeetingUuid(streamId) == "UUID-A"

\* payload of meeting.rtms_stopped: payload.object.id || payload.object.meeting_id
\* ("" when the payload has neither, otherwise the numeric meeting id) and
\* payload.rtms_stream_id
StoppedPayloads == {[meetingId |-> "", rtms_stream_id |-> "S1"],
                    [meetingId |-> "85512345678", rtms_stream_id |-> "S1"]}

\* the transcripts fed through the sessions
TranscriptInputs == {in \in Inputs : in[1] = "U1" /\ in[2].splitLength < LongWords}

\* handleMediaMessage, case 17, on an open media socket: the 'transcript'
\* event reaches the listener that ensureRTMSInitialized registered
MediaTranscript(k, sp, text) ==
    /\ sockets[k].kind # "signaling"
    /\ sockets[k].readyState = "OPEN"
    /\ OnTranscript(MeetingUuid(sessions[sockets[k].owner].streamId), sp, text)

\* payload of meeting.rtms_started: payload.object.id and
\* payload.object.meeting_uuid ("" when absent), payload.rtms_stream_id
StartedPayloads == {[meetingId |-> "", uuid |-> "", rtms_stream_id |-> "S1"],
                    [meetingId |-> "85512345678", uuid |-> "UUID-A", rtms_stream_id |-> "S1"]}

\* the requests that reach POST /webhook: the event, its payload, and whether
\* the x-zm-signature header is "v0=" + HMAC-SHA256(secretToken,
\* "v0:<timestamp>:<rawBody>")
WebhookRequests ==
    {[event |-> "meeting.rtms_started", payload |-> p, signed |-> b] :
         p \in StartedPayloads, b \in BOOLEAN}
    \cup {[event |-> "meeting.rtms_stopped", payload |-> p, signed |-> b] :
         p \in StoppedPayloads, b \in BOOLEAN}

\* router.post('/'), event meeting.rtms_started
WebhookRtmsStarted(payload) ==
    /\ routes' = [routes EXCEPT !.meetingIdToUuid =
                      IF payload.meetingId # "" /\ payload.uuid # ""
                      THEN {e \in @ : e[1] # payload.meetingId}
                           \cup {<<payload.meetingId, payload.uuid>>}
                      ELSE @]
    /\ StreamStart(payload.rtms_stream_id, "wss://ok")
    /\ UNCHANGED <<buffers, chunkLog, summaryLog, destroyed>>

\* router.post('/'), event meeting.rtms_stopped
WebhookRtmsStopped(payload) ==
    /\ IF payload.meetingId # ""
       THEN /\ DestroyBuffer(payload.meetingId)
            /\ routes' = [routes EXCEPT !.webhook = @ \ {payload.meetingId}]
       ELSE UNCHANGED <<buffers, chunkLog, summaryLog, destroyed, routes>>
    /\ StreamStop(payload.rtms_stream_id)
    /\ UNCHANGED duplicates

\* router.post('/') of routes/webhook.js, for an event other than
\* endpoint.url_validation: res.status(200) first, then the event is handled
WebhookPost(req) ==
    /\ posts' = [toggle |-> ~posts.toggle, signed |-> req.signed, status |-> 200]
    /\ IF req.event = "meeting.rtms_started"
       THEN WebhookRtmsStarted(req.payload)
       ELSE WebhookRtmsStopped(req.payload)
    /\ UNCHANGED <<appended, created, clock, config, filVars, inits, restVars>>

InitWebhook == InitBuffer

NextWebhook ==
    \/ \E req \in WebhookRequests : WebhookPost(req)
    \/ \E k \in 1..Len(sockets) : SocketOpen(k)
    \/ \E k \in 1..Len(sockets) :
           SignalingHandshakeResponse(k, 0, [all |-> TRUE, types |-> {"transcript"}])
    \/ \E k \in 1..Len(sockets) : MediaHandshake(k, 0)
    \/ \E k \in 1..Len(sockets), in \in TranscriptInputs : MediaTranscript(k, in[1], in[2])
    \/ \E k \in 1..Len(sockets) : SocketClosed(k)
    \/ \E m \in Meetings : SummaryInterval(m)
    \/ \E m \in Meetings : ChunkInterval(m)

SpecWebhook == InitWebhook /\ [][NextWebhook]_vars

-----------------------------------------------------------------------------
(* Gap fillers: MediaAudioFiller and MediaVideoFiller *)

\* number of packets handed to processBuffer
MaxPackets == 4

\* timestamps of the packets handed to processBuffer, in ms
PacketTimestamps == {0, 20, 80, 300, 500}

\* this._lastPacketTimestamp = Date.now() of RTMSMessageHandler.stop, in ms
EndTimes == {100, 340}

\* audioDetails / videoDetails of the constructors; 0 is a missing field
FillerDetails == {[kind |-> "audio", send_rate |-> 0, fps |-> 0],
                  [kind |-> "video", send_rate |-> 0, fps |-> 0]}

\* audio: audioDetails.send_rate || 20; video: Math.floor(1000 / (videoDetails.fps || 25))
FrameDuration(details) ==
    IF details.kind = "audio"
    THEN IF details.send_rate = 0 THEN 20 ELSE details.send_rate
    ELSE 1000 \div (IF details.fps = 0 THEN 25 ELSE details.fps)

\* new MediaAudioFiller(...) / new MediaVideoFiller(...), startTimer() included
NewFiller(details) ==
    [kind |-> details.kind, frameDuration |-> FrameDuration(details),
     expectedTimestamp |-> <<>>,    \* null
     isFirstPacket |-> TRUE, buffer |-> <<>>, timer |-> TRUE, isStopped |-> FALSE,
     \* history: the last operation, the endTime of stop, the packets received
     lastOp |-> "new", endTime |-> <<>>, received |-> 0]

\* ToNumber(this.expectedTimestamp): null is 0 in a comparison or a sum
Num(expectedTimestamp) == IF expectedTimestamp = <<>> THEN 0 ELSE expectedTimestamp[1]

Abs(x) == IF x < 0 THEN -x ELSE x

\* a 'data' event: its timestamp, and whether the frame is silence / a black frame
Frame(timestamp, isFiller) == [timestamp |-> timestamp, filler |-> isFiller]

\* a filler after an operation, with the 'data' events the operation emitted
Did(f, frames) == [filler |-> f, frames |-> frames]

RECURSIVE InsertionPoint(_, _, _, _)
\* insertSorted: the binary search
InsertionPoint(buffer, timestamp, left, right) ==
    IF left < right
    THEN LET mid == (left + right) \div 2
         IN  IF buffer[mid + 1] < timestamp
             THEN InsertionPoint(buffer, timestamp, mid + 1, right)
             ELSE InsertionPoint(buffer, timestamp, left, mid)
    ELSE left

\* insertSorted(item): this.buffer.splice(left, 0, item)
InsertSorted(buffer, timestamp) ==
    LET left == InsertionPoint(buffer, timestamp, 0, Len(buffer))
    IN  SubSeq(buffer, 1, left) \o <<timestamp>> \o SubSeq(buffer, left + 1, Len(buffer))

\* processBuffer(data, timestamp)
ProcessBuffer(f, timestamp) ==
    IF f.kind = "audio" /\ (f.buffer = <<>> \/ timestamp >= f.buffer[Len(f.buffer)])
    THEN [f EXCEPT !.buffer = Append(@, timestamp)]
    ELSE [f EXCEPT !.buffer = InsertSorted(@, timestamp)]

\* a tick that drops every packet that is behind expected, however little
TickDropsBackward(f) ==
    IF f.buffer = <<>> THEN Did(f, <<>>)
    ELSE IF f.isFirstPacket
    THEN Did([f EXCEPT !.buffer = Tail(@), !.expectedTimestamp = <<Head(f.buffer)>>,
                       !.isFirstPacket = FALSE],
             <<Frame(Head(f.buffer), FALSE)>>)
    ELSE LET candidate == Head(f.buffer)
             timeDiff == candidate - Num(f.expectedTimestamp)
         IN  IF (timeDiff >= 0 /\ timeDiff < f.frameDuration * 3)
                \/ timeDiff < -(f.frameDuration * 10)
             THEN Did([f EXCEPT !.buffer = Tail(@),
                                !.expectedTimestamp = <<candidate + f.frameDuration>>],
                      <<Frame(candidate, FALSE)>>)
             ELSE IF timeDiff < 0
             THEN Did([f EXCEPT !.buffer = Tail(@)], <<>>)
             ELSE Did([f EXCEPT !.expectedTimestamp = <<Num(@) + f.frameDuration>>],
                      <<Frame(Num(f.expectedTimestamp), TRUE)>>)

\* tick()
Tick(f) ==
    IF f.buffer = <<>> THEN Did(f, <<>>)
    ELSE IF f.isFirstPacket
    THEN Did([f EXCEPT !.buffer = Tail(@), !.expectedTimestamp = <<Head(f.buffer)>>,
                       !.isFirstPacket = FALSE],
             <<Frame(Head(f.buffer), FALSE)>>)
    ELSE LET candidate == Head(f.buffer)
             timeDiff == candidate - Num(f.expectedTimestamp)
         IN  IF Abs(timeDiff) < f.frameDuration * 3 \/ timeDiff < -(f.frameDuration * 10)
             THEN Did([f EXCEPT !.buffer = Tail(@),
                                !.expectedTimestamp = <<candidate + f.frameDuration>>],
                      <<Frame(candidate, FALSE)>>)
             ELSE IF timeDiff < 0
             THEN Did([f EXCEPT !.buffer = Tail(@)], <<>>)
             ELSE Did([f EXCEPT !.expectedTimestamp = <<Num(@) + f.frameDuration>>],
                      <<Frame(Num(f.expectedTimestamp), TRUE)>>)

\* stop(endTime): the final fill
FinalFill(f, endTime) ==
    IF endTime # 0 /\ endTime > Num(f.expectedTimestamp)
    THEN LET remainingGap == endTime - Num(f.expectedTimestamp)
             frames == remainingGap \div f.frameDuration
         IN  [i \in 1..frames |->
                  Frame(Num(f.expectedTimestamp) + (i - 1) * f.frameDuration, TRUE)]
    ELSE <<>>

\* a stop that leaves the interval running
StopKeepsTimer(f, endTime) ==
    Did(f, FinalFill(f, endTime))

\* stop(endTime)
Stop(f, endTime) ==
    Did([f EXCEPT !.isStopped = TRUE, !.timer = FALSE], FinalFill(f, endTime))

\* a media packet of the filler's type arrives: filler.processBuffer(data, timestamp)
PacketArrives(timestamp) ==
    /\ filler.kind # "none"
    /\ filler.received < MaxPackets
    /\ filler' = [ProcessBuffer(filler, timestamp) EXCEPT !.received = @ + 1,
                                                          !.lastOp = "processBuffer"]
    /\ UNCHANGED <<emitted, sesVars, bufVars, inits, posts, restVars>>

\* the setInterval callback of startTimer fires
TimerFires ==
    /\ filler.timer
    /\ LET d == IF filler.isStopped THEN Did(filler, <<>>) ELSE Tick(filler)
       IN  /\ filler' = [d.filler EXCEPT !.lastOp = "tick"]
           /\ emitted' = emitted \o d.frames
    /\ UNCHANGED <<sesVars, bufVars, inits, posts, restVars>>

\* RTMSMessageHandler.stop(): filler.stop(this._lastPacketTimestamp)
StopFiller(endTime) ==
    /\ filler.kind # "none"
    /\ filler.endTime = <<>>
    /\ LET d == Stop(filler, endTime)
       IN  /\ filler' = [d.filler EXCEPT !.lastOp = "stop", !.endTime = <<endTime>>]
           /\ emitted' = emitted \o d.frames
    /\ UNCHANGED <<sesVars, bufVars, inits, posts, restVars>>

\* new RTMSMessageHandler(...) with config.useFiller: one filler of either kind
InitFiller ==
    /\ inits = InitsDone
    /\ posts = NoPosts
    /\ RestIdle
    /\ filler \in {NewFiller(details) : details \in FillerDetails}
    /\ emitted = <<>>
    /\ config = AppConfig
    /\ manager = NewManager
    /\ sessions = <<>>
    /\ sockets = <<>>
    /\ duplicates = [sid \in StreamIds |-> 0]
    /\ buffers = [m \in Meetings |-> NoBuffer]
    /\ created = [m \in Meetings |-> 0]
    /\ appended = <<>>
    /\ chunkLog = <<>>
    /\ summaryLog = <<>>
    /\ RoutesIdle

NextFiller ==
    \/ \E timestamp \in PacketTimestamps : PacketArrives(timestamp)
    \/ TimerFires
    \/ \E endTime \in EndTimes : StopFiller(endTime)

SpecFiller == InitFiller /\ [][NextFiller]_vars

-----------------------------------------------------------------------------
(* Properties of the transcript buffer *)

AppendedOf(m) == SelectIdx(appended, 1, LAMBDA u : u.meetingId = m)
ChunksOf(m) == SelectIdx(chunkLog, 1, LAMBDA c : c.meeting_id = m)
SummariesOf(m, sp) ==
    SelectIdx(summaryLog, 1, LAMBDA e : e.meetingId = m /\ e.speakerId = sp)
ChunkText(c) == c.text
PendingLines(m) ==
    IF buffers[m].exists THEN MapSeq(buffers[m].utterances, UtteranceLine) ELSE <<>>

\* C3: the texts of the chunks emitted so far for a meeting, followed by the
\* lines still buffered, spell exactly the utterances appended so far, in append
\* order, each as "<speakerName>: <text>" and joined by newlines; so each chunk
\* holds the utterances appended since the previous one, and once the buffer is
\* flushed or destroyed every appended utterance is in exactly one chunk.
C3_ChunksAreTheAppendedUtterances ==
    \A m \in Meetings :
        Join(MapSeq(ChunksOf(m), ChunkText) \o PendingLines(m), "\n")
            = Join(MapSeq(AppendedOf(m), UtteranceLine), "\n")

\* C3 witness: three utterances went out in two chunks and nothing is pending
C3_Witness ==
    \E m \in Meetings :
        /\ Len(AppendedOf(m)) = 3
        /\ Len(ChunksOf(m)) = 2
        /\ PendingLines(m) = <<>>

\* C4: the k-th chunk emitted for a meeting carries the id "<meetingId>-chunk-k"
C4_ChunkIdsRunFromOne ==
    \A m \in Meetings :
        \A k \in 1..Len(ChunksOf(m)) : ChunksOf(m)[k].chunk_id = ChunkId(m, k)

\* C5: the segmentCount of the summarize events of a (meeting, speaker) never
\* decreases from one event to a later one (stated for the life of one buffer,
\* where only appends, summaries and chunk flushes interleave)
C5_SegmentCountNonDecreasing ==
    \A m \in Meetings, sp \in Speakers :
        LET es == SummariesOf(m, sp)
        IN  created[m] <= 1 => \A i \in 1..Len(es), j \in 1..Len(es) :
                i < j => es[i].segmentCount <= es[j].segmentCount

\* C6: no summarize event carries an empty recentText
C6_NoEmptyRecentText ==
    \A i \in 1..Len(summaryLog) : summaryLog[i].recentText # ""

\* the events appended to a log by a step
NewChunks == SubSeq(chunkLog', Len(chunkLog) + 1, Len(chunkLog'))
NewSummaries == SubSeq(summaryLog', Len(summaryLog) + 1, Len(summaryLog'))

\* the speakers of buffer b with an utterance that no summarize covered
Unsummarised(b) ==
    {sp \in Speakers : \E i \in 1..Len(b.utterances) :
        b.utterances[i].speakerId = sp /\ (i - 1) > b.speakerLastSummarized[sp]}

\* C18: destroy() emits one summarize for every speaker with unsummarised
\* utterances and one chunk holding every buffered utterance (none when the
\* buffer is empty), each delivered to all the listeners attached when destroy
\* was called; the destroyed object has no timer pending and no listener
\* attached, and it is out of the registry
C18_DestroyFlushesAndDetaches ==
    [][\A m \in Meetings :
          Len(destroyed'[m]) # Len(destroyed[m])
              => LET b == buffers[m]
                 IN  /\ Len(NewSummaries) = Cardinality(Unsummarised(b))
                     /\ {NewSummaries[i].speakerId : i \in 1..Len(NewSummaries)} = Unsummarised(b)
                     /\ \A i \in 1..Len(NewSummaries) :
                            /\ NewSummaries[i].deliveredTo = b.listeners
                            /\ NewSummaries[i].meetingId = m
                     /\ IF b.utterances = <<>> THEN NewChunks = <<>>
                        ELSE /\ Len(NewChunks) = 1
                             /\ NewChunks[1].text = Join(MapSeq(b.utterances, UtteranceLine), "\n")
                             /\ NewChunks[1].deliveredTo = b.listeners
                     /\ LET d == destroyed'[m][Len(destroyed'[m])]
                        IN  ~d.timers /\ d.listeners = 0
                     /\ ~buffers'[m].exists]_vars

\* a buffer was destroyed while listeners of both routes were attached; its
\* final summarize and its final chunk reached them
C18_Witness ==
    \E m \in Meetings :
        /\ destroyed[m] # <<>>
        /\ ~buffers[m].exists
        /\ chunkLog # <<>> /\ chunkLog[Len(chunkLog)].deliveredTo = 2
        /\ summaryLog # <<>> /\ summaryLog[Len(summaryLog)].deliveredTo = 2

-----------------------------------------------------------------------------
(* Properties of the RTMS manager and its sessions *)

SessionIds == 1..Len(sessions)

\* the sessions of a stream that were constructed and not stopped
LiveSessions(streamId) ==
    {c \in SessionIds : sessions[c].streamId = streamId /\ ~sessions[c].stopped}

\* C1: a streamId never has more than one live session, the live one is the
\* registered one, and an rtms_started for a registered streamId creates no
\* session object, opens no socket and leaves the registered session as it was
C1_OneLiveSessionPerStream ==
    /\ [](\A sid \in StreamIds :
            /\ Cardinality(LiveSessions(sid)) <= 1
            /\ \A c \in LiveSessions(sid) : manager.connections[sid] = c)
    /\ [][(\E sid \in StreamIds : duplicates'[sid] # duplicates[sid])
            => UNCHANGED <<manager, sessions, sockets>>]_vars

\* a duplicate rtms_started was handled while its session was live and connected
C1_Witness ==
    \E sid \in StreamIds :
        /\ duplicates[sid] > 0
        /\ LiveSessions(sid) # {}
        /\ \E k \in 1..Len(sockets) : sockets[k].owner = manager.connections[sid]

AllTypes == {TYPE_FLAGS[i].type : i \in 1..Len(TYPE_FLAGS)}
FlagOf(type) == (CHOOSE i \in 1..Len(TYPE_FLAGS) : TYPE_FLAGS[i].type = type)
\* the media types a subscribe mask stands for, 32 standing for all of them
RequestedTypes(mask) ==
    IF mask = 32 THEN AllTypes
    ELSE {t \in AllTypes : HasFlag(mask, TYPE_FLAGS[FlagOf(t)].flag)}

\* this step handles a status_code 0 handshake response on signaling socket k
HandshakeOkStep(k) ==
    /\ sockets[k].kind = "signaling" /\ sockets[k].readyState = "OPEN" /\ sockets[k].awaiting
    /\ sockets'[k].readyState = "OPEN" /\ ~sockets'[k].awaiting
    /\ sessions'[sockets[k].owner].lastHandshake.status = 0

\* the media types of the sockets this step constructs
OpenedTypes == {sockets'[j].kind : j \in (Len(sockets) + 1)..Len(sockets')}
OpenedCount == Len(sockets') - Len(sockets)
\* the types the handshake response of this step supplied a URL for
Available(k) == sessions'[sockets[k].owner].lastHandshake.serverUrls.types

PendingTimers(conn) == (IF conn.signalingReconnectTimer THEN 1 ELSE 0) + conn.orphanTimers

\* the signaling sockets constructed for session c
SignalingSockets(c) ==
    {k \in 1..Len(sockets) : sockets[k].owner = c /\ sockets[k].kind = "signaling"}

\* C7: once a handshake response carried a non-zero status of category auth,
\* security, request, meeting or stream, no step arms a signaling reconnect
\* timer of that session or constructs a signaling socket for it
C7_NoReconnectAfterFatal ==
    [][\A c \in SessionIds : sessions[c].fatal =>
          /\ PendingTimers(sessions'[c]) <= PendingTimers(sessions[c])
          /\ SignalingSockets(c)' = SignalingSockets(c)]_vars

\* a session failed its handshake fatally and its signaling socket has closed since
C7_Witness ==
    \E c \in SessionIds :
        /\ sessions[c].fatal
        /\ sessions[c].signaling.socket # 0
        /\ sockets[sessions[c].signaling.socket].readyState = "CLOSED"
        /\ PendingTimers(sessions[c]) = 0

\* C8: after a non-retryable handshake failure the session is terminated, so an
\* rtms_started for the same streamId is never ignored as a duplicate of it
C8_StartAfterFatalCreatesSession ==
    [][\A sid \in StreamIds :
          (manager.connections[sid] # 0 /\ sessions[manager.connections[sid]].fatal)
              => duplicates'[sid] = duplicates[sid]]_vars

\* C9: once msg_type 8 with state 4 and reason 6 has arrived for a session,
\* getStreamTimestamps of its streamId is non-null (no history entry is ever
\* evicted here: one streamId, and the history holds one)
C9_TimestampsAfterMeetingEnded ==
    \A c \in SessionIds : sessions[c].ended => GetStreamTimestampsNonNull(sessions[c].streamId)

\* no socket of session c is open or connecting
NoSocketLive(ws, c) ==
    \A k \in 1..Len(ws) : ws[k].owner = c => ws[k].readyState \notin {"CONNECTING", "OPEN"}

\* C10: once the meeting-ended message has been handled and every socket of
\* the session is closed, none of its sockets is open or connecting again
C10_ClosedForGoodAfterMeetingEnded ==
    [][\A c \in SessionIds : (sessions[c].ended /\ NoSocketLive(sockets, c))
          => NoSocketLive(sockets', c)]_vars

-----------------------------------------------------------------------------
(* Properties of the stream history *)

\* C11: a stream that was started, and whose history entry was not evicted
\* since, has a non-null getStreamMetadata record, whether its session left
\* the registry by rtms_stopped, by the meeting ending or by the manager stopping
C11_MetadataUntilEvicted ==
    \A sid \in StreamIds :
        (sid \in manager.started /\ sid \notin manager.evicted) => GetStreamMetadataNonNull(sid)

\* instance.config.maxStreamHistorySize || 100
MaxSize == IF config.maxStreamHistorySize = 0 THEN 100 ELSE config.maxStreamHistorySize

\* C12: after any sequence of stream starts and stops streamHistory holds at
\* most maxStreamHistorySize entries
C12_HistoryWithinBound == HistorySize(manager) <= MaxSize

\* position of streamId in the recency order (0: never archived)
RecencyRank(streamId) ==
    IF \E i \in 1..Len(manager.recency) : manager.recency[i] = streamId
    THEN CHOOSE i \in 1..Len(manager.recency) : manager.recency[i] = streamId
    ELSE 0

\* C13: eviction is least recently used first: when a stream is still in the
\* history, every stream archived more recently than it is in the history too
C13_EvictsLeastRecentlyArchived ==
    \A a, b \in StreamIds :
        (manager.streamHistory[a] /\ RecencyRank(a) < RecencyRank(b)) => manager.streamHistory[b]

-----------------------------------------------------------------------------
(* Properties of the gap fillers *)

\* C14: while the filler runs, every tick of its interval emits exactly one frame
C14_OneFramePerTick ==
    [][(filler.timer /\ ~filler.isStopped /\ filler'.lastOp = "tick")
          => Len(emitted') = Len(emitted) + 1]_vars

\* C15: the timestamps of the emitted frames are strictly increasing
C15_TimestampsStrictlyIncrease ==
    \A i \in 1..(Len(emitted) - 1) : emitted[i].timestamp < emitted[i + 1].timestamp

\* C16: the first frame a filler emits is a real packet, never a filler frame,
\* and when a tick emitted it, it is the earliest buffered packet and
\* expectedTimestamp is its timestamp
C16_FirstFrameIsReal ==
    /\ emitted # <<>> => ~emitted[1].filler
    /\ (Len(emitted) = 1 /\ filler.lastOp = "tick")
          => /\ filler.expectedTimestamp = <<emitted[1].timestamp>>
             /\ \A i \in 1..Len(filler.buffer) : emitted[1].timestamp <= filler.buffer[i]

\* C17: stop(endTime) appends floor((endTime - expected) / frameDuration)
\* filler frames when endTime > expected (an expected still null counts as 0)
\* and nothing otherwise, and no frame is emitted once stop has returned
C17_StopFillsThenSilent ==
    /\ [][\A endTime \in EndTimes :
              (filler.endTime = <<>> /\ filler'.endTime = <<endTime>>)
                  => LET expected == Num(filler.expectedTimestamp)
                         n == IF endTime > expected
                              THEN (endTime - expected) \div filler.frameDuration ELSE 0
                     IN  /\ Len(emitted') = Len(emitted) + n
                         /\ SubSeq(emitted', 1, Len(emitted)) = emitted
                         /\ \A i \in 1..n : emitted'[Len(emitted) + i].filler
                         /\ n * filler.frameDuration <= Abs(endTime - expected)]_vars
    /\ [][filler.endTime # <<>> => emitted' = emitted]_vars

\* a stopped filler that had synced to a packet, filled the gap up to endTime
\* and then received a packet it still buffers
C17_Witness ==
    /\ filler.endTime # <<>>
    /\ filler.expectedTimestamp # <<>>
    /\ filler.lastOp = "processBuffer"
    /\ filler.buffer # <<>>
    /\ emitted # <<>> /\ emitted[Len(emitted)].filler
    /\ filler.endTime[1] > Num(filler.expectedTimestamp)

-----------------------------------------------------------------------------
(* Properties of the reconnects *)

\* the sessions in the registry
Registered == {manager.connections[sid] : sid \in StreamIds} \ {0}

\* session c has a signaling socket whose 'close' event is still to come
SignalingClosing(c) ==
    \E k \in 1..Len(sockets) :
        sockets[k].owner = c /\ sockets[k].kind = "signaling" /\ sockets[k].readyState = "CLOSING"

\* C25: a retryable session always has a connecting or open signaling socket
\* or a pending reconnect (or a closing socket whose 'close' event, which
\* schedules the reconnect, is still to come)
C25_RetryableNeverIdle ==
    \A c \in Registered :
        sessions[c].shouldReconnect
            => \/ IsLive(sockets, sessions[c].signaling.socket)
               \/ PendingTimers(sessions[c]) > 0
               \/ SignalingClosing(c)

\* C26: a session has at most one signaling reconnect timer pending
C26_OneReconnectTimer ==
    \A c \in SessionIds : PendingTimers(sessions[c]) <= 1

\* this step is the 'close' event of media socket k, and its handler
\* calls conn.connect(): the session is retryable and signaling is not ready
MediaCloseConnects(k) ==
    /\ sockets[k].kind # "signaling"
    /\ sockets[k].readyState # "CLOSED" /\ sockets'[k].readyState = "CLOSED"
    /\ sessions[sockets[k].owner].shouldReconnect
    /\ ~ (/\ sessions[sockets[k].owner].signaling.state = "ready"
          /\ IsLive(sockets, sessions[sockets[k].owner].signaling.socket)
          /\ sockets[sessions[sockets[k].owner].signaling.socket].readyState = "OPEN")

\* the connect attempt of this step created no socket and left the session
\* as the 'close' handler of media socket k had it
Rejected(k) ==
    /\ Len(sockets') = Len(sockets)
    /\ sessions'[sockets[k].owner] =
           [sessions[sockets[k].owner] EXCEPT !.media[sockets[k].kind].state = "closed",
                                              !.connects.blocked = TRUE]

\* the signaling socket of the session is connecting or open, or its
\* handshake is in flight
SocketOrHandshake(c) ==
    IsLive(sockets, sessions[c].signaling.socket) \/ sessions[c].signalingHandshakeInFlight

\* C27 as claimed: a connect attempt is rejected when the signaling socket is
\* connecting or open, a handshake is in flight, or a reconnect timer is pending
C27_RejectedAlsoWhenTimerPending ==
    [][\A k \in 1..Len(sockets) :
          (/\ MediaCloseConnects(k)
           /\ \/ SocketOrHandshake(sockets[k].owner)
              \/ sessions[sockets[k].owner].signalingReconnectTimer)
              => Rejected(k)]_vars

\* C27: a connect attempt is rejected (no socket created, no session state
\* changed) when the signaling socket is connecting or open or a handshake is
\* in flight; when only a reconnect timer is pending, the attempt cancels the
\* timer and goes on to open the one new signaling socket
C27_GuardedConnect ==
    [][\A k \in 1..Len(sockets) :
          MediaCloseConnects(k) =>
              LET c == sockets[k].owner
              IN  /\ SocketOrHandshake(c) => Rejected(k)
                  /\ (~SocketOrHandshake(c) /\ sessions[c].signalingReconnectTimer)
                        => /\ ~sessions'[c].signalingReconnectTimer
                           /\ sessions[c].serverUrls = "wss://ok"
                                 => /\ Len(sockets') = Len(sockets) + 1
                                    /\ sockets'[Len(sockets')] = NewSocket(c, "signaling")
                                    /\ sessions'[c].signaling.socket = Len(sockets')]_vars

\* a connect attempt of a session was blocked while its signaling socket
\* was open with the handshake in flight, and the socket is still open
C27_Witness ==
    \E c \in SessionIds :
        /\ sessions[c].connects.blocked
        /\ sessions[c].signalingHandshakeInFlight
        /\ IsLive(sockets, sessions[c].signaling.socket)

\* a connect attempt of a session cancelled its pending reconnect timer
C27_TimerCancelled ==
    \E c \in SessionIds : sessions[c].connects.overTimer

\* this step is the 'close' event of media socket k
MediaCloses(k) ==
    /\ sockets[k].kind # "signaling"
    /\ sockets[k].readyState # "CLOSED" /\ sockets'[k].readyState = "CLOSED"

\* this step is a media reconnect timeout of session c for media type t
MediaTimerFires(c, t) ==
    sessions'[c].mediaTimers[t] < sessions[c].mediaTimers[t]

C29_TornDownWhenNotReady ==
    [][\A k \in 1..Len(sockets) :
          (/\ MediaCloses(k)
           /\ sessions[sockets[k].owner].shouldReconnect
           /\ sessions[sockets[k].owner].signaling.state # "ready")
              => LET conn == sessions[sockets[k].owner]
                 IN  /\ ~IsLive(sockets', conn.signaling.socket)
                     /\ \A t \in MediaKeys \ {sockets[k].kind} :
                            ~IsLive(sockets', conn.media[t].socket)]_vars

\* C30: once stop() of a session has returned, no timer of the session is
\* pending (no signaling reconnect timer, no media reconnect timeout) and no
\* step creates a socket for the session
C30_NothingAfterStop ==
    [][\A c \in SessionIds :
          sessions[c].stopped
              => /\ PendingTimers(sessions[c]) = 0
                 /\ \A t \in MediaKeys : sessions[c].mediaTimers[t] = 0
                 /\ \A k \in (Len(sockets) + 1)..Len(sockets') : sockets'[k].owner # c]_vars

-----------------------------------------------------------------------------
(* Properties of the packet timestamps *)

\* C24: in the archived record of every stopped session,
\* firstPacketTimestamp <= lastPacketTimestamp
C24_FirstNotAfterLast ==
    \A sid \in StreamIds :
        manager.streamHistory[sid]
            => Num(manager.data[sid].firstPacketTimestamp)
                   <= Num(manager.data[sid].lastPacketTimestamp)

-----------------------------------------------------------------------------
(* Properties of the status-code table *)

\* the reconnect flag of the session that owns socket k, after the step
ReconnectAfter(k) == sessions'[sockets[k].owner].shouldReconnect

\* C23: a signaling handshake that fails with status 1, 2, 5, 13, 15, 17 or
\* 18 (categories auth, meeting, security) disables reconnect; one that fails
\* with 10, 11, 12 or 16 (server, network, media) leaves reconnect as it was
C23_StatusTable ==
    [][\A k \in 1..Len(sockets), urls \in ServerUrlsInputs :
          /\ \A st \in {1, 2, 5, 13, 15, 17, 18} :
                 SignalingHandshakeResponse(k, st, urls) => ~ReconnectAfter(k)
          /\ \A st \in {10, 11, 12, 16} :
                 SignalingHandshakeResponse(k, st, urls)
                     => ReconnectAfter(k) = sessions[sockets[k].owner].shouldReconnect]_vars

-----------------------------------------------------------------------------
(* Properties of the webhook route *)

\* C19: when an rtms_stopped webhook takes the session of a stream out of the
\* registry, the transcript buffer of its meeting (the one its transcripts
\* were appended to) is destroyed and removed from the buffer registry
C19_StoppedTearsDownBuffer ==
    [][\A sid \in StreamIds :
          (/\ manager.connections[sid] # 0
           /\ manager'.connections[sid] = 0
           /\ buffers[MeetingUuid(sid)].exists)
              => /\ ~buffers'[MeetingUuid(sid)].exists
                 /\ Len(destroyed'[MeetingUuid(sid)]) = Len(destroyed[MeetingUuid(sid)]) + 1]_vars

\* C22: a webhook request (not a url_validation) whose signature header
\* does not match is answered 401 and changes nothing: no session, no
\* socket, no meeting mapping, no transcript buffer
C22_BadSignatureRejected ==
    [][(posts'.toggle # posts.toggle /\ ~posts'.signed)
          => /\ posts'.status = 401
             /\ UNCHANGED <<manager, sessions, sockets, buffers, routes>>]_vars

-----------------------------------------------------------------------------
(* Properties of RTMSManager.init *)

\* C20: however many init calls are made, overlapping or not, one manager is
\* constructed and its lifecycle listeners are registered once; every call
\* returns that instance, and no call after the first changes the config
C20_InitIsIdempotent ==
    /\ [](/\ inits.constructed <= 1
          /\ inits.wired <= 1
          /\ \A i \in 1..Len(inits.returned) :
                 inits.returned[i].config = config /\ inits.returned[i].state # "NONE")
    /\ [][inits.constructed = 1 => config' = config]_vars

\* three calls with different options, the second made while the first was
\* awaiting start(): all returned, and the config is the first call's
C20_Witness ==
    /\ Len(inits.returned) = 3
    /\ inits.returned[1].overlapped
    /\ \E i \in 1..3 : MergeConfig(inits.returned[i].options) # config
    /\ sessions # <<>>

-----------------------------------------------------------------------------
(* Properties of the timed transcript flow *)

\* C21: "hello", "world", "again" of U1 fed to a fresh buffer of UUID-A
\* within 4 s and nothing after: one summarize event in all, 10 s after the
\* last append, with recentText "hello world again" and segmentCount 3; no
\* chunk before 60 s; at 60 s one chunk "UUID-A-chunk-1" with the three lines
C21_TranscriptFlow ==
    /\ Len(summaryLog) <= 1
    /\ Len(chunkLog) <= 1
    /\ summaryLog # <<>> =>
          /\ clock.said = 3
          /\ clock.summaryAt = <<clock.lastAppend + SPEAKER_IDLE_MS>>
          /\ summaryLog[1].speakerId = "U1"
          /\ summaryLog[1].recentText = "hello world again"
          /\ summaryLog[1].segmentCount = 3
    /\ (clock.said = 3 /\ clock.now > clock.lastAppend + SPEAKER_IDLE_MS) => summaryLog # <<>>
    /\ chunkLog # <<>> =>
          /\ clock.chunkAt = <<CHUNK_INTERVAL_MS>>
          /\ chunkLog[1].chunk_id = "UUID-A-chunk-1"
          /\ chunkLog[1].text = "U1: hello\nU1: world\nU1: again"
    /\ clock.now > CHUNK_INTERVAL_MS => chunkLog # <<>>

\* the last utterance came 4 s after the first, and the second chunk
\* interval has passed
C21_Witness ==
    /\ clock.lastAppend = ScenarioWindow
    /\ clock.now > 2 * CHUNK_INTERVAL_MS
    /\ Len(summaryLog) = 1
    /\ Len(chunkLog) = 1

-----------------------------------------------------------------------------
(* Properties of a filler tick on a packet that is behind *)

\* this step is a tick after the first packet, with a packet in the buffer
TickOnPacket ==
    /\ filler.timer /\ ~filler.isStopped /\ ~filler.isFirstPacket
    /\ filler.buffer # <<>>
    /\ filler'.lastOp = "tick"

\* candidate.timestamp - this.expectedTimestamp of the tick of this step
TimeDiff == Head(filler.buffer) - Num(filler.expectedTimestamp)

\* the tick removed the earliest packet and emitted nothing
DroppedSilently ==
    /\ filler'.buffer = Tail(filler.buffer)
    /\ emitted' = emitted
    /\ filler'.expectedTimestamp = filler.expectedTimestamp

\* the tick emitted the earliest packet and set expected to its
\* timestamp + frameDuration
EmittedPacket ==
    /\ filler'.buffer = Tail(filler.buffer)
    /\ emitted' = Append(emitted, Frame(Head(filler.buffer), FALSE))
    /\ filler'.expectedTimestamp = <<Head(filler.buffer) + filler.frameDuration>>

\* C31 as claimed: a packet behind expected by at most 10 frameDurations is
\* dropped silently; one behind by more re-syncs
C31_EveryBackwardPacketDropped ==
    [][TickOnPacket =>
          /\ (TimeDiff < 0 /\ TimeDiff >= -(filler.frameDuration * 10)) => DroppedSilently
          /\ TimeDiff < -(filler.frameDuration * 10) => EmittedPacket]_vars

\* C31: a packet behind expected by 3 to 10 frameDurations is dropped
\* silently; one behind by more than 10 re-syncs (emitted, expected set to
\* its timestamp + frameDuration); one behind by less than 3 frameDurations
\* is within the tolerance and is emitted like a packet on time
C31_BackwardPacket ==
    [][TickOnPacket =>
          /\ (TimeDiff <= -(filler.frameDuration * 3)
                 /\ TimeDiff >= -(filler.frameDuration * 10)) => DroppedSilently
          /\ TimeDiff < -(filler.frameDuration * 10) => EmittedPacket
          /\ (TimeDiff < 0 /\ TimeDiff > -(filler.frameDuration * 3)) => EmittedPacket]_vars

\* the packets the filler got that are neither buffered nor emitted
DroppedPackets ==
    filler.received - Len(filler.buffer)
        - Len(SelectSeq(emitted, LAMBDA fr : ~fr.filler))

\* a running filler has dropped a packet on a tick, and has emitted a
\* packet whose timestamp is below the one emitted before it
C31_Witness ==
    /\ filler.kind # "none" /\ ~filler.isStopped
    /\ filler.lastOp = "tick"
    /\ DroppedPackets > 0
    /\ \E i \in 2..Len(emitted) :
           ~emitted[i].filler /\ ~emitted[i - 1].filler
           /\ emitted[i].timestamp < emitted[i - 1].timestamp

-----------------------------------------------------------------------------
(* Keep-alive requests on the signaling and media sockets *)

\* number of keep-alive requests received in all
MaxKeepAlives == 4

\* msg.timestamp of a keep-alive request
KeepAliveTimestamps == {1, 2, 3}

\* a response object that is not updated before it is sent
MediaKeepAliveResponseStale(response, timestamp) == response

\* keepAliveResponse.timestamp = msg.timestamp
MediaKeepAliveResponse(response, timestamp) == [response EXCEPT !.timestamp = timestamp]

\* a msg_type 12 frame with this timestamp arrives on socket k
KeepAliveArrives(k, timestamp) ==
    /\ keepAlive.received < MaxKeepAlives
    /\ keepAlive' = [keepAlive EXCEPT !.inbox[k] = Append(@, timestamp),
                                      !.received = @ + 1]
    /\ UNCHANGED <<bufVars, sesVars, filVars, inits, posts, limits, ensured, eventWs>>

\* handleSignalingMessage, case 12: a new object is sent on signalingWs
SignalingKeepAlive(k) ==
    /\ k \in {"signaling-1", "signaling-2"}
    /\ keepAlive.inbox[k] # <<>>
    /\ LET msg == Head(keepAlive.inbox[k])
       IN  keepAlive' = [keepAlive EXCEPT
               !.inbox[k] = Tail(@),
               !.handled[k] = Append(@, msg),
               !.sent[k] = Append(@, [msg_type |-> 13, timestamp |-> msg])]
    /\ UNCHANGED <<bufVars, sesVars, filVars, inits, posts, limits, ensured, eventWs>>

\* handleMediaMessage, case 12: the shared keepAliveResponse is updated and
\* its serialisation is sent on mediaWs, within the one call
MediaKeepAlive(k) ==
    /\ k \in {"media-1", "media-2"}
    /\ keepAlive.inbox[k] # <<>>
    /\ LET msg == Head(keepAlive.inbox[k])
           response == MediaKeepAliveResponse(keepAlive.response, msg)
       IN  keepAlive' = [keepAlive EXCEPT
               !.response = response,
               !.inbox[k] = Tail(@),
               !.handled[k] = Append(@, msg),
               !.sent[k] = Append(@, response)]
    /\ UNCHANGED <<bufVars, sesVars, filVars, inits, posts, limits, ensured, eventWs>>

InitKeepAlive == InitBuffer

NextKeepAlive ==
    \/ \E k \in KeepAliveSockets, timestamp \in KeepAliveTimestamps : KeepAliveArrives(k, timestamp)
    \/ \E k \in KeepAliveSockets : SignalingKeepAlive(k)
    \/ \E k \in KeepAliveSockets : MediaKeepAlive(k)

SpecKeepAlive == InitKeepAlive /\ [][NextKeepAlive]_vars

\* C32: on every socket, the frames sent are exactly one msg_type 13 per
\* keep-alive request handled, in order, each with the timestamp of its request
C32_KeepAliveEchoed ==
    \A k \in KeepAliveSockets :
        keepAlive.sent[k] =
            [i \in 1..Len(keepAlive.handled[k]) |->
                 [msg_type |-> 13, timestamp |-> keepAlive.handled[k][i]]]

\* the media sockets of the two sessions and a signaling socket have answered
\* keep-alives with different timestamps, and no request is waiting
C32_Witness ==
    /\ \A k \in KeepAliveSockets : keepAlive.inbox[k] = <<>>
    /\ keepAlive.sent["media-1"] # <<>>
    /\ keepAlive.sent["media-2"] # <<>>
    /\ keepAlive.sent["signaling-1"] # <<>>
    /\ keepAlive.sent["media-1"][1].timestamp # keepAlive.sent["media-2"][1].timestamp
    /\ keepAlive.response.timestamp # keepAlive.sent["media-1"][1].timestamp

-----------------------------------------------------------------------------
(* Properties of the message handlers on frames that lack fields *)

\* this step handles a handshake response with status_code 0 and no
\* media_server.server_urls.all on signaling socket k
HandshakeWithoutAllUrl(k) ==
    /\ sockets[k].kind = "signaling" /\ sockets[k].readyState = "OPEN" /\ sockets[k].awaiting
    /\ ~sockets'[k].awaiting
    /\ sessions'[sockets[k].owner].lastHandshake.status = 0
    /\ ~sessions'[sockets[k].owner].lastHandshake.serverUrls.all

\* C33: no message handler throws, and a frame that lacks the fields its
\* msg_type requires leaves the session as it was
C33_NoHandlerThrows ==
    [][/\ \A c \in SessionIds : ~sessions'[c].threw
       /\ \A k \in 1..Len(sockets) :
              HandshakeWithoutAllUrl(k)
                  => sessions'[sockets[k].owner] =
                         [sessions[sockets[k].owner] EXCEPT
                              !.lastHandshake = sessions'[sockets[k].owner].lastHandshake]]_vars

-----------------------------------------------------------------------------
(* One session over the reconnects of its signaling socket *)

\* number of WebSocket objects constructed while one session reconnects
MaxReconnectSockets == 4

InitReconnect ==
    /\ config = AppConfig
    /\ inits = InitsDone
    /\ posts = NoPosts
    /\ keepAlive = NoKeepAlive
    /\ ensured = NotEnsured
    /\ eventWs = NewWebsocketManager
    /\ limits = [sockets |-> MaxReconnectSockets]
    /\ FillerIdle
    /\ manager = NewManager
    /\ sessions = <<>>
    /\ sockets = <<>>
    /\ duplicates = [sid \in StreamIds |-> 0]
    /\ buffers = [m \in Meetings |-> NoBuffer]
    /\ created = [m \in Meetings |-> 0]
    /\ appended = <<>>
    /\ chunkLog = <<>>
    /\ summaryLog = <<>>
    /\ RoutesIdle

NextReconnect ==
    \/ \E sid \in SessionStreamIds : OnStreamStart(sid, "wss://ok")
    \/ \E k \in 1..Len(sockets) : SocketOpen(k)
    \/ \E k \in 1..Len(sockets) : SocketConnectFails(k)
    \/ \E k \in 1..Len(sockets) : SocketClosed(k)
    \/ \E k \in 1..Len(sockets) :
           SignalingHandshakeResponse(k, 0, [all |-> TRUE, types |-> {"transcript"}])
    \/ \E k \in 1..Len(sockets) : MediaHandshake(k, 0)
    \/ \E c \in 1..Len(sessions), replaced \in BOOLEAN : SignalingReconnectTimer(c, replaced)
    \/ \E c \in 1..Len(sessions), t \in MediaKeys : MediaReconnectTimer(c, t)

SpecReconnect == InitReconnect /\ [][NextReconnect]_vars

\* the media sockets of session c for media type t that are connecting or open
LiveMedia(c, t) ==
    {k \in 1..Len(sockets) : sockets[k].owner = c /\ sockets[k].kind = t /\ IsLive(sockets, k)}

\* C34: a session has at most one connecting or open media socket per media type
C34_OneLiveMediaSocketPerType ==
    \A c \in SessionIds, t \in MediaKeys : Cardinality(LiveMedia(c, t)) <= 1

-----------------------------------------------------------------------------
(* Properties of the summaries of a speaker *)

\* the texts speaker sp said in meeting m, in append order
SaidBy(m, sp) ==
    MapSeq(SelectIdx(appended, 1, LAMBDA u : u.meetingId = m /\ u.speakerId = sp),
           UtteranceText)

\* the buffered texts of speaker sp that no summarize event has covered yet
NotYetSummarised(m, sp) ==
    IF buffers[m].exists
    THEN MapSeq(SelectIdx(buffers[m].utterances, buffers[m].speakerLastSummarized[sp] + 2,
                          LAMBDA u : u.speakerId = sp),
                UtteranceText)
    ELSE <<>>

RecentText(e) == e.recentText

\* C35: the recentText of the summarize events of a speaker, followed by the
\* texts of the speaker that are buffered and not yet summarised, spell
\* exactly the texts the speaker said, in order: no utterance is in two
\* summaries and none is lost to the summaries
C35_EveryUtteranceSummarisedOnce ==
    \A m \in Meetings, sp \in Speakers :
        Join(MapSeq(SummariesOf(m, sp), RecentText) \o NotYetSummarised(m, sp), " ")
            = Join(SaidBy(m, sp), " ")

-----------------------------------------------------------------------------
(* Properties of the buffer of a stopped meeting *)

\* rtms_stopped was processed for the stream: a session of it was stopped
\* and the stream has no session in the registry
StoppedStream(sid) ==
    /\ manager.connections[sid] = 0
    /\ \E c \in SessionIds : sessions[c].streamId = sid /\ sessions[c].stopped

\* C36: once rtms_stopped was processed for a stream, the buffer registry
\* holds no transcript buffer for its meeting
C36_NoBufferAfterStopped ==
    \A sid \in StreamIds : StoppedStream(sid) => ~buffers[MeetingUuid(sid)].exists

-----------------------------------------------------------------------------
(* ensureRTMSInitialized of routes/webhook.js *)

MaxWebhookCalls == 3
MaxTranscriptEvents == 3

\* the options ensureRTMSInitialized hands to RTMSManager.init
WebhookOptions == [mediaTypes |-> 8, maxStreamHistorySize |-> 0]

\* ensureRTMSInitialized, from the request handler up to its return (the flag
\* is set) or up to `await RTMSManager.init(...)`
EnsureRTMSInitialized ==
    /\ ensured.awaiting + ensured.returned < MaxWebhookCalls
    /\ IF ensured.rtmsInitialized
       THEN /\ ensured' = [ensured EXCEPT !.returned = @ + 1]
            /\ UNCHANGED <<config, manager, inits>>
       ELSE /\ InitBody(WebhookOptions)
            /\ ensured' = [ensured EXCEPT !.awaiting = @ + 1]
    /\ UNCHANGED <<sessions, sockets, duplicates, bufVars, filVars, posts, keepAlive, limits, eventWs>>

\* ensureRTMSInitialized after its await: the init call it waited for is
\* over, RTMSManager.on('transcript', ...) and rtmsInitialized = true
EnsureResumes ==
    /\ ensured.awaiting > 0
    /\ inits' = IF inits.pending # <<>>
                THEN [inits EXCEPT !.pending = Tail(@),
                                   !.returned = Append(@, Returned(Head(inits.pending)))]
                ELSE inits
    /\ ensured' = [ensured EXCEPT !.awaiting = @ - 1, !.returned = @ + 1,
                                  !.listeners = @ + 1, !.rtmsInitialized = TRUE]
    /\ UNCHANGED <<sesVars, bufVars, filVars, posts, keepAlive, limits, eventWs>>

\* one 'transcript' listener of the webhook route runs: wireBufferEvents,
\* getOrCreateBuffer and buffer.append
ListenerRuns(st, m, sp, text) ==
    LET wd == WireBufferEvents(st.buffers, st.wired, m)
        bs == GetOrCreateBuffer(wd.buffers, m)
        o  == BufferAppend(Out(bs[m], st.chunks, st.sums), sp, UserName(sp), text)
    IN  [buffers |-> [bs EXCEPT ![m] = o.buf], wired |-> wd.wired,
         chunks |-> o.chunks, sums |-> o.sums,
         said |-> Append(st.said, [meetingId |-> m, speakerId |-> sp,
                                   speakerName |-> UserName(sp), text |-> text.str])]

\* EventEmitter.emit: the n listeners run one after the other
RECURSIVE EmitToListeners(_, _, _, _, _)
EmitToListeners(st, n, m, sp, text) ==
    IF n = 0 THEN st
    ELSE EmitToListeners(ListenerRuns(st, m, sp, text), n - 1, m, sp, text)

\* the manager emits 'transcript' for a session started by a request that
\* went past ensureRTMSInitialized
EmitTranscript(m, sp, text) ==
    /\ ensured.returned > 0
    /\ ensured.events < MaxTranscriptEvents
    /\ text.str # ""
    /\ LET st == EmitToListeners([buffers |-> buffers, wired |-> routes.webhook,
                                  chunks |-> <<>>, sums |-> <<>>, said |-> <<>>],
                                 ensured.listeners, m, sp, text)
       IN  /\ buffers' = st.buffers
           /\ routes' = [routes EXCEPT !.webhook = st.wired]
           /\ chunkLog' = chunkLog \o st.chunks
           /\ summaryLog' = summaryLog \o st.sums
           /\ appended' = appended \o st.said
           /\ created' = [created EXCEPT ![m] = IF buffers[m].exists THEN @ ELSE @ + 1]
    /\ ensured' = [ensured EXCEPT !.events = @ + 1]
    /\ UNCHANGED <<destroyed, clock, sesVars, filVars, inits, posts, keepAlive, limits, eventWs>>

InitEnsure == InitProcess

NextEnsure ==
    \/ EnsureRTMSInitialized
    \/ EnsureResumes
    \/ \E m \in Meetings, in \in Inputs : EmitTranscript(m, in[1], in[2])

SpecEnsure == InitEnsure /\ [][NextEnsure]_vars

\* C37: whatever the order of the webhook requests and of their awaits, the
\* manager has one 'transcript' listener once the route is initialized and
\* never more, and every transcript event appended one utterance
C37_OneTranscriptListener ==
    /\ ensured.listeners <= 1
    /\ ensured.rtmsInitialized => ensured.listeners = 1
    /\ Len(appended) = ensured.events

-----------------------------------------------------------------------------
(* Properties of a superseded signaling socket *)

\* signaling socket k closes or fails in this step while its session has
\* another signaling socket, which is connecting or open
SupersededSocketEnds(k) ==
    /\ sockets[k].kind = "signaling"
    /\ sockets[k].readyState \in {"CONNECTING", "OPEN", "CLOSING"}
    /\ sockets'[k].readyState # sockets[k].readyState
    /\ sockets'[k].readyState \in {"CLOSING", "CLOSED"}
    /\ sessions[sockets[k].owner].signaling.socket # k
    /\ IsLive(sockets, sessions[sockets[k].owner].signaling.socket)

\* C38: the close or the error of a signaling socket that a newer one has
\* superseded leaves the signaling state and the handshake-in-flight flag of
\* the session as they are and arms no reconnect timer
C38_SupersededSocketChangesNothing ==
    [][\A k \in 1..Len(sockets) :
          SupersededSocketEnds(k) =>
              LET c == sockets[k].owner
              IN  /\ sessions'[c].signaling = sessions[c].signaling
                  /\ sessions'[c].signalingHandshakeInFlight
                         = sessions[c].signalingHandshakeInFlight
                  /\ sessions'[c].signalingReconnectTimer
                         => sessions[c].signalingReconnectTimer]_vars

-----------------------------------------------------------------------------
(* Properties of the listeners of a buffer *)

\* the buffer of meeting m holds utterances that are still to be flushed
HoldsUtterances(m) == buffers[m].exists /\ buffers[m].utterances # <<>>

\* C39: a buffer that holds utterances has one 'chunk' and one 'summarize'
\* listener, and every chunk and summary emitted so far was delivered to
\* exactly one listener
C39_OneListenerPair ==
    /\ \A m \in Meetings : HoldsUtterances(m) => buffers[m].listeners = 1
    /\ \A i \in 1..Len(chunkLog) : chunkLog[i].deliveredTo = 1
    /\ \A i \in 1..Len(summaryLog) : summaryLog[i].deliveredTo = 1

-----------------------------------------------------------------------------
(* WebsocketManager: the event WebSocket and its reconnects *)

MaxEventSockets == 3

maxReconnectAttempts == 10

\* WebsocketManager.scheduleReconnect
ScheduleReconnect(e) ==
    IF e.reconnectAttempts >= maxReconnectAttempts THEN e
    ELSE [e EXCEPT !.reconnectInterval = TRUE, !.reconnectAttempts = @ + 1]

\* WebsocketManager.stop
WebsocketManagerStop(e) ==
    LET e1 == [e EXCEPT !.reconnectInterval = FALSE, !.heartbeatInterval = FALSE,
                        !.stopped = TRUE]
    IN  IF e.ws # 0
        THEN [e1 EXCEPT !.sockets[e.ws] = "CLOSING", !.ws = 0]
        ELSE e1

EventWsStep(e) ==
    /\ eventWs' = e
    /\ UNCHANGED <<bufVars, sesVars, filVars, inits, posts, keepAlive, limits, ensured>>

\* WebsocketManager.start: connect, up to `await getAccessTokenForEventWebsocket`
EventWsStart ==
    /\ ~eventWs.started
    /\ EventWsStep([eventWs EXCEPT !.started = TRUE, !.awaiting = @ + 1])

\* connect after its await, the token request succeeded: new WebSocket(url)
EventWsTokenArrives ==
    /\ eventWs.awaiting > 0
    /\ Len(eventWs.sockets) < MaxEventSockets
    /\ EventWsStep([eventWs EXCEPT !.awaiting = @ - 1,
                                   !.sockets = Append(@, "CONNECTING"),
                                   !.ws = Len(eventWs.sockets) + 1])

\* connect after its await, the token request failed: the catch block
EventWsTokenFails ==
    /\ eventWs.awaiting > 0
    /\ EventWsStep(ScheduleReconnect([eventWs EXCEPT !.awaiting = @ - 1]))

\* ws.on('open')
EventWsOpen(k) ==
    /\ eventWs.sockets[k] = "CONNECTING"
    /\ EventWsStep([eventWs EXCEPT !.sockets[k] = "OPEN", !.reconnectAttempts = 0,
                                   !.heartbeatInterval = TRUE])

\* ws.on('error'): the socket fails and its 'close' follows
EventWsError(k) ==
    /\ eventWs.sockets[k] \in {"CONNECTING", "OPEN"}
    /\ EventWsStep(ScheduleReconnect([eventWs EXCEPT !.sockets[k] = "CLOSING"]))

\* ws.on('close')
EventWsClose(k) ==
    /\ eventWs.sockets[k] \in {"OPEN", "CLOSING"}
    /\ EventWsStep(ScheduleReconnect([eventWs EXCEPT !.sockets[k] = "CLOSED",
                                                     !.heartbeatInterval = FALSE]))

\* the timer of scheduleReconnect fires: connect, up to its await
EventWsReconnectTimer ==
    /\ eventWs.reconnectInterval
    /\ EventWsStep([eventWs EXCEPT !.reconnectInterval = FALSE, !.awaiting = @ + 1])

\* WebsocketManager.stop()
EventWsStop ==
    /\ eventWs.started
    /\ ~eventWs.stopped
    /\ EventWsStep(WebsocketManagerStop(eventWs))

InitEventWs == InitBuffer

NextEventWs ==
    \/ EventWsStart
    \/ EventWsTokenArrives
    \/ EventWsTokenFails
    \/ \E k \in 1..Len(eventWs.sockets) : EventWsOpen(k)
    \/ \E k \in 1..Len(eventWs.sockets) : EventWsError(k)
    \/ \E k \in 1..Len(eventWs.sockets) : EventWsClose(k)
    \/ EventWsReconnectTimer
    \/ EventWsStop

SpecEventWs == InitEventWs /\ [][NextEventWs]_vars

\* C40: once stop() was called, no socket is created, no reconnect timer is
\* armed and no connect call starts
C40_StoppedNeverConnects ==
    [][eventWs.stopped =>
          /\ Len(eventWs'.sockets) = Len(eventWs.sockets)
          /\ eventWs'.reconnectInterval => eventWs.reconnectInterval
          /\ eventWs'.awaiting <= eventWs.awaiting]_vars

====
